---- MODULE Spec2Model ----
(***************************************************************************)
(* Model of the chat-log analytics core of code-lens-flow                  *)
(* (src/analytics/supabase_integration/backend/chat_logs_analytics.py):    *)
(* ChatLogsAnalyzer.group_into_sessions / _create_session,                 *)
(* calculate_developer_status / _calculate_objective_status and            *)
(* detect_team_collisions / _check_collision, parse_chat_logs,             *)
(* generate_team_dashboard_data and ChatLogsAPI.get_team_dashboard; and of *)
(* the legacy summarizer ObjectiveMetricsEngine.extract_conversation_context *)
(* (src/analytics/legacy_analytics/codelens_objective_metrics.py).         *)
(*                                                                         *)
(* Timestamps are whole seconds since an arbitrary epoch (a datetime       *)
(* difference is compared through total_seconds()).  A text is the         *)
(* sequence of lexical tokens it holds.                                    *)
(***************************************************************************)
EXTENDS Integers, Sequences, FiniteSets, TLC

VARIABLES
    pc,                  \* which call has been made: "start", then its result
    interactions,        \* the caller's list of ChatInteraction
    session_gap_minutes, \* argument of group_into_sessions
    sessions,            \* list of ConversationSession (result / argument)
    user_id,             \* argument of calculate_developer_status
    project_id,          \* argument of calculate_developer_status / detect_team_collisions
    lookback_hours,      \* argument of both
    now,                 \* datetime.now(timezone.utc) read by the call
    activity,            \* DeveloperActivity returned by calculate_developer_status
    collisions,          \* list returned by detect_team_collisions
    context,             \* ConversationContext returned by the legacy summarizer
    chat_logs,           \* raw records handed to ChatLogsAPI.get_team_dashboard
    dashboard,           \* dictionary returned by get_team_dashboard
    insights,            \* dictionary returned by get_developer_insights
    projects,            \* list returned by get_project_list
    team_contexts,       \* list of ConversationContext handed to the legacy engine
    active_sessions,     \* ClaudeCodeIntegration.active_sessions
    handlers             \* the websocket_handler coroutine of each connection

vars == <<pc, interactions, session_gap_minutes, sessions, user_id, project_id,
          lookback_hours, now, activity, collisions, context, chat_logs,
          dashboard, insights, projects, team_contexts, active_sessions, handlers>>

(***************************************************************************)
(* Generic helpers                                                         *)
(***************************************************************************)
\* sequences over S of length at most n
SeqUpTo(S, n) == UNION {[1..k -> S] : k \in 0..n}

\* sum of the elements of a sequence of numbers
RECURSIVE SumSeq(_)
SumSeq(s) == IF s = <<>> THEN 0 ELSE Head(s) + SumSeq(Tail(s))

\* the elements of a sequence
Range(s) == {s[i] : i \in DOMAIN s}

\* concatenation of a sequence of sequences
RECURSIVE Flatten(_)
Flatten(ss) == IF ss = <<>> THEN <<>> ELSE Head(ss) \o Flatten(Tail(ss))

\* the first n elements: list[:n]
Take(s, n) == SubSeq(s, 1, IF Len(s) < n THEN Len(s) ELSE n)

\* the last n elements: list[-n:]
LastN(s, n) == SubSeq(s, IF Len(s) > n THEN Len(s) - n + 1 ELSE 1, Len(s))

Max(a, b) == IF a >= b THEN a ELSE b

\* the orders in which a set of strings may be iterated (string hashing is
\* randomised per process): every permutation of the set
Orders(S) ==
    {p \in [1..Cardinality(S) -> S] : \A i, j \in DOMAIN p : p[i] = p[j] => i = j}

\* a sequence back to front
Reversed(seq) == [i \in DOMAIN seq |-> seq[Len(seq) + 1 - i]]

\* list(S) under an iteration order that covers S
ListOf(S, order) == SelectSeq(order, LAMBDA x : x \in S)

(***************************************************************************)
(* Lexical tables: ChatLogsAnalyzer.__init__                               *)
(* A text is a sequence of tokens of Vocabulary; for each token the tables *)
(* give what the analyzer's patterns and indicator lists find in it.       *)
(***************************************************************************)
ManyFiles ==
    <<"f01.py", "f02.py", "f03.py", "f04.py", "f05.py", "f06.py", "f07.py",
      "f08.py", "f09.py", "f10.py", "f11.py">>

Vocabulary ==
    {"hello", "auth.js", "utils.py", "src/api", "login", "auth", "fixed",
     "perfect!", "same error", "still not working", "bug"} \cup Range(ManyFiles)

\* re.findall of file_patterns on the token: the tokens shaped name.ext or
\* folder/file
file_patterns(tok) ==
    IF tok \in {"auth.js", "utils.py", "src/api"} \cup Range(ManyFiles)
    THEN {tok} ELSE {}

\* the false-positive filter of _extract_files: '.' in file, len > 2,
\* no leading '.', not one of www. http. https. ("src/api" has no '.')
passes_file_filter(file) == file # "src/api"

\* re.findall of feature_patterns on the lower-cased token (\b...\b words)
feature_patterns(tok) ==
    CASE tok = "auth.js" -> {"auth"}
      [] tok = "auth"    -> {"auth"}
      [] tok = "login"   -> {"login"}
      [] tok = "src/api" -> {"api"}
      [] OTHER           -> {}

success_indicators ==
    <<"works", "perfect", "done", "completed", "success", "fixed", "great",
      "exactly", "solved", "working now", "that's it", "perfect!",
      "excellent", "thank you", "brilliant">>

stuck_indicators ==
    <<"still not working", "same error", "tried everything", "doesn't work",
      "keep getting", "still failing", "won't work", "same issue", "no luck",
      "still broken">>

problem_indicators ==
    <<"error", "bug", "issue", "problem", "fail", "broken", "not working",
      "doesn't work", "exception", "crash">>

\* str.count(indicator) on one token: a token holds itself once, and
\* "perfect!" holds "perfect", "same error" holds "error", "still not
\* working" holds "not working"; no other phrase of the lists occurs in a
\* token of Vocabulary
str_count(tok, indicator) ==
    IF tok = indicator THEN 1
    ELSE IF tok = "perfect!" /\ indicator = "perfect" THEN 1
    ELSE IF tok = "same error" /\ indicator = "error" THEN 1
    ELSE IF tok = "still not working" /\ indicator = "not working" THEN 1
    ELSE 0

\* str.count(indicator) on a text: the tokens are joined by spaces and no
\* phrase of the lists spans two tokens
text_count(text, indicator) ==
    SumSeq([j \in DOMAIN text |-> str_count(text[j], indicator)])

\* any(indicator in text for indicator in indicators)
any_indicator_in(text, indicators) ==
    \E k \in DOMAIN indicators : text_count(text, indicators[k]) > 0

\* the orders in which list(set) may yield the file names and the feature
\* names of S (the two are never in one set, so an order of the files
\* followed by an order of the features stands for every interleaving).
\* Every permutation for the small sets; for a set holding the ManyFiles
\* names one order and its reverse.
MasterOrder == <<"auth.js", "utils.py", "src/api">> \o ManyFiles \o <<"auth", "login", "api">>

IterationOrders(S) ==
    IF S \cap Range(ManyFiles) = {}
    THEN LET files == {x \in S : file_patterns(x) # {}}
         IN  {file_order \o feature_order :
                 file_order \in Orders(files), feature_order \in Orders(S \ files)}
    ELSE LET seq == SelectSeq(MasterOrder, LAMBDA x : x \in S)
         IN  {seq, Reversed(seq)}

(***************************************************************************)
(* ChatInteraction                                                         *)
(***************************************************************************)
ChatInteraction(id, user, project, ts, query, response) ==
    [id |-> id, user_id |-> user, project_id |-> project,
     interaction_timestamp |-> ts, user_query |-> query,
     claude_response |-> response]

(***************************************************************************)
(* Session summarizer: _extract_*, _count_indicators, _create_session      *)
(***************************************************************************)
\* mutant of _extract_files: the [:10] cut is left out
_extract_files_uncapped(text, order) ==
    LET files == UNION {file_patterns(tok) : tok \in Range(text)}
        filtered_files == {f \in files : passes_file_filter(f)}
    IN  ListOf(filtered_files, order)

_extract_files(text, order) ==
    LET files == UNION {file_patterns(tok) : tok \in Range(text)}
        filtered_files == {f \in files : passes_file_filter(f)}
    IN  Take(ListOf(filtered_files, order), 10)

_extract_features(text, order) ==
    ListOf(UNION {feature_patterns(tok) : tok \in Range(text)}, order)

\* the queries that hold a problem indicator, in turn order (every query of
\* the model is shorter than the 100-character cut)
_extract_problems(user_queries) ==
    SelectSeq(user_queries, LAMBDA q : any_indicator_in(q, problem_indicators))

_extract_solutions(claude_responses) ==
    SelectSeq(claude_responses, LAMBDA r : any_indicator_in(r, success_indicators))

\* count += text.count(indicator) for every indicator of the list
_count_indicators(text, indicators) ==
    SumSeq([k \in DOMAIN indicators |-> text_count(text, indicators[k])])

\* strftime('%Y%m%d_%H%M%S') of a timestamp: day number, then HHMMSS
Pad2(n) == IF n < 10 THEN "0" \o ToString(n) ELSE ToString(n)
strftime(ts) ==
    ToString(ts \div 86400) \o "_" \o Pad2((ts % 86400) \div 3600)
        \o Pad2((ts % 3600) \div 60) \o Pad2(ts % 60)

session_id_format(user, project, start_time, session_num) ==
    user \o "_" \o project \o "_" \o strftime(start_time) \o "_"
        \o ToString(session_num)

\* mutant of duration_of: a started minute counts
duration_of_started_minutes(start_time, end_time) == (end_time - start_time + 59) \div 60

\* int(total_seconds / 60): truncation (never negative, the members are sorted)
duration_of(start_time, end_time) == (end_time - start_time) \div 60

_create_session(members, user, project, session_num, order) ==
    LET start_time == members[1].interaction_timestamp
        end_time   == members[Len(members)].interaction_timestamp
        all_text   == Flatten([i \in DOMAIN members |->
                          members[i].user_query \o members[i].claude_response])
    IN  [session_id |-> session_id_format(user, project, start_time, session_num),
         user_id |-> user,
         project_id |-> project,
         interactions |-> members,
         start_time |-> start_time,
         end_time |-> end_time,
         duration_minutes |-> Max(duration_of(start_time, end_time), 1),
         files_mentioned |-> _extract_files(all_text, order),
         features_discussed |-> _extract_features(all_text, order),
         problems_encountered |->
             _extract_problems([i \in DOMAIN members |-> members[i].user_query]),
         solutions_found |->
             _extract_solutions([i \in DOMAIN members |-> members[i].claude_response]),
         success_indicators |-> _count_indicators(all_text, success_indicators),
         stuck_indicators |-> _count_indicators(all_text, stuck_indicators)]

(***************************************************************************)
(* group_into_sessions                                                     *)
(***************************************************************************)
\* keys of the defaultdict, in insertion order (first appearance in the list)
RECURSIVE DictKeys(_, _)
DictKeys(list, seen) ==
    IF list = <<>> THEN <<>>
    ELSE LET key == <<Head(list).user_id, Head(list).project_id>>
         IN  IF key \in seen THEN DictKeys(Tail(list), seen)
             ELSE <<key>> \o DictKeys(Tail(list), seen \cup {key})

\* user_project_interactions[key]: the key's records in list order
user_project_interactions(list, key) ==
    SelectSeq(list, LAMBDA i : <<i.user_id, i.project_id>> = key)

\* mutant of SortByTimestamp: the sort is left out
SortByTimestamp_unsorted(list) == list

\* list.sort(key=timestamp): stable, ascending; insertion into a sorted prefix
RECURSIVE InsertSorted(_, _)
InsertSorted(sorted, x) ==
    IF sorted = <<>> THEN <<x>>
    ELSE IF Head(sorted).interaction_timestamp <= x.interaction_timestamp
         THEN <<Head(sorted)>> \o InsertSorted(Tail(sorted), x)
         ELSE <<x>> \o sorted

RECURSIVE SortByTimestamp(_)
SortByTimestamp(list) ==
    IF list = <<>> THEN <<>>
    ELSE InsertSorted(SortByTimestamp(SubSeq(list, 1, Len(list) - 1)),
                      list[Len(list)])

\* mutant of gap_exceeded: a gap equal to the threshold splits too
gap_exceeded_inclusive(current_session, interaction, gap) ==
    /\ current_session # <<>>
    /\ interaction.interaction_timestamp
         - current_session[Len(current_session)].interaction_timestamp
       >= gap * 60

\* does the record start a new session after the open one?
gap_exceeded(current_session, interaction, gap) ==
    /\ current_session # <<>>
    /\ interaction.interaction_timestamp
         - current_session[Len(current_session)].interaction_timestamp
       > gap * 60

\* mutant of walk: the session still open at the end of the list is lost
RECURSIVE walk_forgets_last(_, _, _, _, _, _, _)
walk_forgets_last(rest, current_session, session_counter, user, project, gap, order) ==
    IF rest = <<>> THEN <<>>
    ELSE IF gap_exceeded(current_session, Head(rest), gap)
         THEN <<_create_session(current_session, user, project,
                                session_counter, order)>>
              \o walk_forgets_last(Tail(rest), <<Head(rest)>>, session_counter + 1,
                                   user, project, gap, order)
         ELSE walk_forgets_last(Tail(rest), Append(current_session, Head(rest)),
                                session_counter, user, project, gap, order)

\* the walk over one key's sorted records
RECURSIVE walk(_, _, _, _, _, _, _)
walk(rest, current_session, session_counter, user, project, gap, order) ==
    IF rest = <<>>
    THEN IF current_session # <<>>
         THEN <<_create_session(current_session, user, project,
                                session_counter, order)>>
         ELSE <<>>
    ELSE IF gap_exceeded(current_session, Head(rest), gap)
         THEN <<_create_session(current_session, user, project,
                                session_counter, order)>>
              \o walk(Tail(rest), <<Head(rest)>>, session_counter + 1,
                      user, project, gap, order)
         ELSE walk(Tail(rest), Append(current_session, Head(rest)),
                   session_counter, user, project, gap, order)

RECURSIVE sessions_of_keys(_, _, _, _)
sessions_of_keys(keys, list, gap, order) ==
    IF keys = <<>> THEN <<>>
    ELSE LET key == Head(keys)
         IN  walk(SortByTimestamp(user_project_interactions(list, key)),
                  <<>>, 1, key[1], key[2], gap, order)
             \o sessions_of_keys(Tail(keys), list, gap, order)

group_into_sessions(list, gap, order) ==
    sessions_of_keys(DictKeys(list, {}), list, gap, order)

\* the strings a list's texts can put into a session's file or feature set
StringsOf(list) ==
    UNION {file_patterns(tok) \cup feature_patterns(tok) :
           tok \in UNION {Range(list[i].user_query) \cup Range(list[i].claude_response) :
                          i \in DOMAIN list}}

(***************************************************************************)
(* calculate_developer_status                                              *)
(***************************************************************************)
\* datetime.min: earlier than every timestamp (timestamps are >= 0)
datetime_min == -1

\* sessions.sort(key=end_time, reverse=True): stable, descending
RECURSIVE InsertByRecency(_, _)
InsertByRecency(sorted, s) ==
    IF sorted = <<>> THEN <<s>>
    ELSE IF Head(sorted).end_time >= s.end_time
         THEN <<Head(sorted)>> \o InsertByRecency(Tail(sorted), s)
         ELSE <<s>> \o sorted

RECURSIVE SortByRecency(_)
SortByRecency(list) ==
    IF list = <<>> THEN <<>>
    ELSE InsertByRecency(SortByRecency(SubSeq(list, 1, Len(list) - 1)),
                         list[Len(list)])

total_interactions(list) == SumSeq([i \in DOMAIN list |-> Len(list[i].interactions)])
total_success(list) == SumSeq([i \in DOMAIN list |-> list[i].success_indicators])
total_stuck(list) == SumSeq([i \in DOMAIN list |-> list[i].stuck_indicators])
total_duration(list) == SumSeq([i \in DOMAIN list |-> list[i].duration_minutes])

\* mutant of _calculate_objective_status: the stuck rule without its
\* "many interactions, no success" half
_calculate_objective_status_no_volume(list) ==
    IF list = <<>> THEN "idle"
    ELSE IF total_success(list) > 0 /\ total_interactions(list) <= 6 THEN "flow"
    ELSE IF total_stuck(list) > 1 THEN "stuck"
    ELSE IF total_interactions(list) > 6 THEN "slow"
    ELSE "flow"

\* mutant of _calculate_objective_status: the slow rule starts at 6
\* interactions
_calculate_objective_status_slow_at_6(list) ==
    IF list = <<>> THEN "idle"
    ELSE IF total_success(list) > 0 /\ total_interactions(list) <= 6 THEN "flow"
    ELSE IF \/ total_stuck(list) > 1
            \/ (total_interactions(list) > 10 /\ total_success(list) = 0)
         THEN "stuck"
    ELSE IF total_interactions(list) >= 6 THEN "slow"
    ELSE "flow"

_calculate_objective_status(list) ==
    IF list = <<>> THEN "idle"
    ELSE IF total_success(list) > 0 /\ total_interactions(list) <= 6 THEN "flow"
    ELSE IF \/ total_stuck(list) > 1
            \/ (total_interactions(list) > 10 /\ total_success(list) = 0)
         THEN "stuck"
    ELSE IF total_interactions(list) > 6 THEN "slow"
    ELSE "flow"

\* mutant of _infer_current_task: the feature is looked at before the file
_infer_current_task_feature_first(session) ==
    IF session.features_discussed # <<>>
    THEN <<"development", session.features_discussed[1]>>
    ELSE IF session.files_mentioned # <<>>
    THEN <<"Working on", session.files_mentioned[1]>>
    ELSE IF session.problems_encountered # <<>>
    THEN <<"Debugging", session.problems_encountered[Len(session.problems_encountered)]>>
    ELSE <<"General development">>

\* the task line, as (kind, subject)
_infer_current_task(session) ==
    IF session.files_mentioned # <<>>
    THEN <<"Working on", session.files_mentioned[1]>>
    ELSE IF session.features_discussed # <<>>
    THEN <<"development", session.features_discussed[1]>>
    ELSE IF session.problems_encountered # <<>>
    THEN <<"Debugging", session.problems_encountered[Len(session.problems_encountered)]>>
    ELSE <<"General development">>

\* the sessions of the user and project that end after the cutoff
cutoff_time(clock, hours) == clock - hours * 3600

\* mutant of recent_sessions_of: a session ending at the cutoff counts
recent_sessions_of_inclusive(list, user, project, clock, hours) ==
    SelectSeq(list, LAMBDA s : /\ s.user_id = user
                               /\ s.project_id = project
                               /\ s.end_time >= cutoff_time(clock, hours))

recent_sessions_of(list, user, project, clock, hours) ==
    SelectSeq(list, LAMBDA s : /\ s.user_id = user
                               /\ s.project_id = project
                               /\ s.end_time > cutoff_time(clock, hours))

\* success_rate is the quotient num / den, kept as the pair
calculate_developer_status(list, user, project, hours, clock, order) ==
    LET recent == SortByRecency(recent_sessions_of(list, user, project, clock, hours))
    IN  IF recent = <<>>
        THEN [user_id |-> user, project_id |-> project,
              current_task |-> <<"No recent activity">>,
              status |-> "idle",
              last_activity |-> datetime_min,
              duration_minutes |-> 0,
              files_working_on |-> <<>>,
              recent_problems |-> <<>>,
              iteration_count |-> 0,
              success_rate |-> [num |-> 0, den |-> 1]]
        ELSE LET all_files == UNION {Range(recent[i].files_mentioned) : i \in DOMAIN recent}
                 all_problems ==
                     Flatten([i \in DOMAIN recent |-> recent[i].problems_encountered])
             IN  [user_id |-> user, project_id |-> project,
                  current_task |-> _infer_current_task(recent[1]),
                  status |-> _calculate_objective_status(recent),
                  last_activity |-> recent[1].end_time,
                  duration_minutes |-> total_duration(recent),
                  files_working_on |-> Take(ListOf(all_files, order), 5),
                  recent_problems |-> LastN(all_problems, 3),
                  iteration_count |-> total_interactions(recent),
                  success_rate |-> [num |-> total_success(recent),
                                    den |-> Max(total_interactions(recent), 1)]]

(***************************************************************************)
(* detect_team_collisions                                                  *)
(***************************************************************************)
\* confidence of a file and of a feature collision, in tenths
file_confidence == 9
feature_confidence == 7

\* the union of a field (a list of strings) over a user's sessions
files_of(list) == UNION {Range(list[i].files_mentioned) : i \in DOMAIN list}
features_of(list) == UNION {Range(list[i].features_discussed) : i \in DOMAIN list}

\* mutant of _check_collision: features are looked at before files
_check_collision_feature_first(sessions1, sessions2, user1, user2, clock, order) ==
    LET file_overlap    == files_of(sessions1) \cap files_of(sessions2)
        feature_overlap == features_of(sessions1) \cap features_of(sessions2)
    IN  IF feature_overlap # {}
        THEN <<[type |-> "feature_collision", users |-> <<user1, user2>>,
                resource |-> ListOf(feature_overlap, order)[1],
                confidence |-> feature_confidence, detected_at |-> clock]>>
        ELSE IF file_overlap # {}
        THEN <<[type |-> "file_collision", users |-> <<user1, user2>>,
                resource |-> ListOf(file_overlap, order)[1],
                confidence |-> file_confidence, detected_at |-> clock]>>
        ELSE <<>>

\* the entry for two users, or <<>> for None; list(overlap)[0] is the first
\* element of the overlap in the iteration order
_check_collision(sessions1, sessions2, user1, user2, clock, order) ==
    LET file_overlap    == files_of(sessions1) \cap files_of(sessions2)
        feature_overlap == features_of(sessions1) \cap features_of(sessions2)
    IN  IF file_overlap # {}
        THEN <<[type |-> "file_collision", users |-> <<user1, user2>>,
                resource |-> ListOf(file_overlap, order)[1],
                confidence |-> file_confidence, detected_at |-> clock]>>
        ELSE IF feature_overlap # {}
        THEN <<[type |-> "feature_collision", users |-> <<user1, user2>>,
                resource |-> ListOf(feature_overlap, order)[1],
                confidence |-> feature_confidence, detected_at |-> clock]>>
        ELSE <<>>

\* keys of user_activities, in insertion order
RECURSIVE UserKeys(_, _)
UserKeys(list, seen) ==
    IF list = <<>> THEN <<>>
    ELSE IF Head(list).user_id \in seen THEN UserKeys(Tail(list), seen)
         ELSE <<Head(list).user_id>> \o UserKeys(Tail(list), seen \cup {Head(list).user_id})

user_activities(list, user) == SelectSeq(list, LAMBDA s : s.user_id = user)

\* mutant of user_pairs: the inner loop runs over users[i:]
user_pairs_from_self(n) ==
    Flatten([i \in 1..n |-> [k \in 1..(n - i + 1) |-> <<i, i + k - 1>>]])

\* the (i, j) of "for i, user1 in enumerate(users): for user2 in users[i+1:]",
\* in loop order
user_pairs(n) ==
    Flatten([i \in 1..n |-> [k \in 1..(n - i) |-> <<i, i + k>>]])

\* mutant of recent_project_sessions: the cutoff is not applied
recent_project_sessions_any_time(list, project, clock, hours) ==
    SelectSeq(list, LAMBDA s : s.project_id = project)

\* the sessions of the project that end after the cutoff
recent_project_sessions(list, project, clock, hours) ==
    SelectSeq(list, LAMBDA s : /\ s.project_id = project
                               /\ s.end_time > cutoff_time(clock, hours))

detect_team_collisions(list, project, hours, clock, order) ==
    LET recent == recent_project_sessions(list, project, clock, hours)
        users  == UserKeys(recent, {})
        pairs  == user_pairs(Len(users))
    IN  Flatten([p \in DOMAIN pairs |->
            _check_collision(user_activities(recent, users[pairs[p][1]]),
                             user_activities(recent, users[pairs[p][2]]),
                             users[pairs[p][1]], users[pairs[p][2]],
                             clock, order)])

(***************************************************************************)
(* Legacy summarizer: ObjectiveMetricsEngine.extract_conversation_context  *)
(***************************************************************************)
flow_indicators ==
    <<"works", "perfect", "done", "completed", "success", "fixed", "great",
      "exactly", "solved", "working now">>

legacy_stuck_indicators ==
    <<"still not working", "same error", "tried everything", "doesn't work",
      "keep getting", "still failing">>

legacy_problem_indicators ==
    <<"error", "bug", "issue", "problem", "not working", "failed">>

\* the messages of a conversation: each turn's query as a user message and
\* its response as an assistant message
MessagesOf(list) ==
    Flatten([i \in DOMAIN list |->
        << [role |-> "user", content |-> list[i].user_query],
           [role |-> "assistant", content |-> list[i].claude_response] >>])

\* sum(1 for indicator in indicators if indicator in all_text)
legacy_count(all_text, indicators) ==
    Cardinality({k \in DOMAIN indicators : text_count(all_text, indicators[k]) > 0})

extract_conversation_context(messages, developer_id, clock, order) ==
    IF messages = <<>>
    THEN [developer_id |-> developer_id, session_id |-> "", start_time |-> clock,
          messages |-> <<>>, files_mentioned |-> <<>>, features_discussed |-> <<>>,
          problems_encountered |-> <<>>, solutions_found |-> <<>>,
          iteration_count |-> 0, success_indicators |-> 0, stuck_indicators |-> 0]
    ELSE LET contents == [i \in DOMAIN messages |-> messages[i].content]
             all_text == Flatten(contents)
             of_role(r) == SelectSeq(messages, LAMBDA m : m.role = r)
             user_contents ==
                 [i \in DOMAIN of_role("user") |-> of_role("user")[i].content]
             assistant_contents ==
                 [i \in DOMAIN of_role("assistant") |-> of_role("assistant")[i].content]
         IN  [developer_id |-> developer_id,
              session_id |-> "unknown",
              start_time |-> clock,
              messages |-> messages,
              files_mentioned |->
                  ListOf(UNION {file_patterns(tok) : tok \in Range(all_text)}, order),
              features_discussed |->
                  ListOf(UNION {feature_patterns(tok) : tok \in Range(all_text)}, order),
              problems_encountered |->
                  SelectSeq(user_contents,
                            LAMBDA c : any_indicator_in(c, legacy_problem_indicators)),
              solutions_found |->
                  SelectSeq(assistant_contents,
                            LAMBDA c : any_indicator_in(c, flow_indicators)),
              iteration_count |-> Len(user_contents),
              success_indicators |-> legacy_count(all_text, flow_indicators),
              stuck_indicators |-> legacy_count(all_text, legacy_stuck_indicators)]

(***************************************************************************)
(* ObjectiveMetricsEngine.detect_team_collisions (legacy engine)           *)
(***************************************************************************)
files_of_contexts(contexts) ==
    UNION {Range(contexts[i].files_mentioned) : i \in DOMAIN contexts}

features_of_contexts(contexts) ==
    UNION {Range(contexts[i].features_discussed) : i \in DOMAIN contexts}

\* the TeamCollision, or nothing (None); confidence in tenths
_check_file_collision(contexts1, contexts2, dev1, dev2, clock, order) ==
    LET common_files == files_of_contexts(contexts1) \cap files_of_contexts(contexts2)
    IN  IF common_files # {}
        THEN <<[developers |-> <<dev1, dev2>>, collision_type |-> "file",
                resource |-> ListOf(common_files, order)[1],
                confidence |-> file_confidence, detected_at |-> clock]>>
        ELSE <<>>

_check_feature_collision(contexts1, contexts2, dev1, dev2, clock, order) ==
    LET common_features ==
            features_of_contexts(contexts1) \cap features_of_contexts(contexts2)
    IN  IF common_features # {}
        THEN <<[developers |-> <<dev1, dev2>>, collision_type |-> "feature",
                resource |-> ListOf(common_features, order)[1],
                confidence |-> feature_confidence, detected_at |-> clock]>>
        ELSE <<>>

\* keys of dev_contexts, in insertion order
RECURSIVE DeveloperKeys(_, _)
DeveloperKeys(contexts, seen) ==
    IF contexts = <<>> THEN <<>>
    ELSE IF Head(contexts).developer_id \in seen
    THEN DeveloperKeys(Tail(contexts), seen)
    ELSE <<Head(contexts).developer_id>>
             \o DeveloperKeys(Tail(contexts), seen \cup {Head(contexts).developer_id})

dev_contexts(contexts, dev) == SelectSeq(contexts, LAMBDA c : c.developer_id = dev)

\* for each pair the file collision, then the feature collision
legacy_detect_team_collisions(contexts, clock, order) ==
    LET developers == DeveloperKeys(contexts, {})
        of_pair(i, j) ==
            _check_file_collision(dev_contexts(contexts, developers[i]),
                                  dev_contexts(contexts, developers[j]),
                                  developers[i], developers[j], clock, order)
            \o _check_feature_collision(dev_contexts(contexts, developers[i]),
                                        dev_contexts(contexts, developers[j]),
                                        developers[i], developers[j], clock, order)
    IN  Flatten([i \in DOMAIN developers |->
            Flatten([k \in 1..(Len(developers) - i) |-> of_pair(i, i + k)])])

(***************************************************************************)
(* parse_chat_logs, generate_team_dashboard_data and                       *)
(* ChatLogsAPI.get_team_dashboard                                          *)
(***************************************************************************)
\* the seconds of the day written in the logs' timestamps
LogSeconds == {3601, 9000}

\* 'HH:MM:SS' of a second of day 1970-01-01
clock_text(ts) ==
    Pad2(ts \div 3600) \o ":" \o Pad2((ts % 3600) \div 60) \o ":" \o Pad2(ts % 60)

\* the timestamp as the logs write it
iso_z(ts) == "1970-01-01T" \o clock_text(ts) \o "Z"

\* datetime.isoformat() of an aware UTC datetime, and of datetime.min
isoformat(ts) ==
    IF ts = datetime_min THEN "0001-01-01T00:00:00"
    ELSE "1970-01-01T" \o clock_text(ts) \o "+00:00"

\* the texts of the timestamps that occur in the logs
iso_texts == [ts \in LogSeconds |-> iso_z(ts)]

\* datetime.fromisoformat(text.replace('Z', '+00:00')): the second the text
\* denotes, or ValueError for a text that is not an ISO timestamp
fromisoformat(text) ==
    IF \E ts \in LogSeconds : iso_texts[ts] = text
    THEN [raised |-> "none", value |-> CHOOSE ts \in LogSeconds : iso_texts[ts] = text]
    ELSE [raised |-> "ValueError"]

\* the keys parse_chat_logs reads, in the order it reads them
log_keys ==
    <<"id", "user_query", "claude_response", "user_id", "project_id",
      "interaction_timestamp", "created_at", "updated_at">>

timestamp_keys == {"interaction_timestamp", "created_at", "updated_at"}

\* the first exception raised while the ChatInteraction of one log is built:
\* KeyError for an absent key, ValueError for an unparseable timestamp
RECURSIVE first_exception(_, _)
first_exception(log, keys) ==
    IF keys = <<>> THEN "none"
    ELSE IF Head(keys) \notin DOMAIN log THEN "KeyError"
    ELSE IF Head(keys) \in timestamp_keys
            /\ fromisoformat(log[Head(keys)]).raised # "none"
         THEN fromisoformat(log[Head(keys)]).raised
    ELSE first_exception(log, Tail(keys))

\* the list of ChatInteraction, or the exception of the first log that
\* raises one (nothing catches it)
RECURSIVE parse_chat_logs(_)
parse_chat_logs(logs) ==
    IF logs = <<>> THEN [raised |-> "none", value |-> <<>>]
    ELSE LET log == Head(logs)
         IN  IF first_exception(log, log_keys) # "none"
             THEN [raised |-> first_exception(log, log_keys)]
             ELSE LET rest == parse_chat_logs(Tail(logs))
                  IN  IF rest.raised # "none" THEN rest
                      ELSE [raised |-> "none",
                            value |-> <<ChatInteraction(
                                log.id, log.user_id, log.project_id,
                                fromisoformat(log.interaction_timestamp).value,
                                log.user_query, log.claude_response)>>
                              \o rest.value]

\* round(success_rate, 2), in hundredths (no quotient of the model lies
\* halfway between two hundredths)
round2(rate) == (2 * 100 * rate.num + rate.den) \div (2 * rate.den)

_activity_to_dict(a) ==
    [user_id |-> a.user_id, project_id |-> a.project_id,
     current_task |-> a.current_task, status |-> a.status,
     last_activity |-> isoformat(a.last_activity),
     duration_minutes |-> a.duration_minutes,
     files_working_on |-> a.files_working_on,
     recent_problems |-> a.recent_problems,
     iteration_count |-> a.iteration_count,
     success_rate |-> round2(a.success_rate)]

\* statistics.mean of the success rates, as the quotient num / den
RECURSIVE sum_of_rates(_)
sum_of_rates(rates) ==
    IF rates = <<>> THEN [num |-> 0, den |-> 1]
    ELSE LET rest == sum_of_rates(Tail(rates))
         IN  [num |-> Head(rates).num * rest.den + rest.num * Head(rates).den,
              den |-> Head(rates).den * rest.den]

mean_of_rates(rates) ==
    [num |-> sum_of_rates(rates).num, den |-> sum_of_rates(rates).den * Len(rates)]

\* reads is the clock as read by the status calls, by the collision call,
\* for the 24 hour cutoff and for last_updated; order covers the user ids
\* and the file and feature names
generate_team_dashboard_data(list, project, reads, order) ==
    LET project_sessions == SelectSeq(list, LAMBDA s : s.project_id = project)
        users == ListOf({project_sessions[i].user_id : i \in DOMAIN project_sessions},
                        order)
        team_status ==
            [i \in DOMAIN users |->
                calculate_developer_status(list, users[i], project, 2,
                                           reads.status, order)]
        recent == SelectSeq(project_sessions,
                            LAMBDA s : s.end_time > cutoff_time(reads.metrics, 24))
    IN  [project_id |-> project,
         team_status |-> [i \in DOMAIN team_status |-> _activity_to_dict(team_status[i])],
         collisions |-> detect_team_collisions(list, project, 2, reads.collisions, order),
         project_metrics |->
             [total_interactions_24h |-> total_interactions(recent),
              active_developers |->
                  Len(SelectSeq(team_status, LAMBDA a : a.status # "idle")),
              files_being_worked_on |->
                  Cardinality(UNION {Range(team_status[i].files_working_on) :
                                         i \in DOMAIN team_status}),
              average_success_rate |->
                  IF team_status = <<>> THEN [num |-> 0, den |-> 1]
                  ELSE mean_of_rates([i \in DOMAIN team_status |->
                                          team_status[i].success_rate])],
         last_updated |-> isoformat(reads.last_updated)]

\* the dictionary returned, or the exception that leaves the call
get_team_dashboard(project, logs, reads, order) ==
    LET parsed == parse_chat_logs(logs)
    IN  IF parsed.raised # "none" THEN [raised |-> parsed.raised]
        ELSE generate_team_dashboard_data(
                 group_into_sessions(parsed.value, 30, order), project, reads, order)

(***************************************************************************)
(* ChatLogsAPI.get_developer_insights                                      *)
(***************************************************************************)
\* the exception raised by the filter's condition on one log: the
\* timestamp is read and parsed first, user_id is read only for a log after
\* the cutoff, project_id only for a log of the user
filter_exception(log, user, cutoff) ==
    IF "interaction_timestamp" \notin DOMAIN log THEN "KeyError"
    ELSE IF fromisoformat(log.interaction_timestamp).raised # "none"
    THEN fromisoformat(log.interaction_timestamp).raised
    ELSE IF ~(fromisoformat(log.interaction_timestamp).value > cutoff) THEN "none"
    ELSE IF "user_id" \notin DOMAIN log THEN "KeyError"
    ELSE IF log.user_id # user THEN "none"
    ELSE IF "project_id" \notin DOMAIN log THEN "KeyError"
    ELSE "none"

\* mutant of recent_logs_of: every log is kept
recent_logs_unfiltered(logs, user, project, cutoff) ==
    [raised |-> "none", value |-> logs]

\* recent_logs, or the exception of the first log whose test raises one
RECURSIVE recent_logs_of(_, _, _, _)
recent_logs_of(logs, user, project, cutoff) ==
    IF logs = <<>> THEN [raised |-> "none", value |-> <<>>]
    ELSE LET log == Head(logs)
         IN  IF filter_exception(log, user, cutoff) # "none"
             THEN [raised |-> filter_exception(log, user, cutoff)]
             ELSE LET rest == recent_logs_of(Tail(logs), user, project, cutoff)
                      kept == /\ fromisoformat(log.interaction_timestamp).value > cutoff
                              /\ log.user_id = user
                              /\ log.project_id = project
                  IN  IF rest.raised # "none" THEN rest
                      ELSE [raised |-> "none",
                            value |-> (IF kept THEN <<log>> ELSE <<>>) \o rest.value]

\* round(total / count, 1) in tenths: to the nearest tenth, a quotient
\* halfway between two tenths to the even one
round1(total, count) ==
    LET q == (10 * total) \div count
        r == (10 * total) % count
    IN  IF 2 * r < count THEN q
        ELSE IF 2 * r > count THEN q + 1
        ELSE IF q % 2 = 0 THEN q ELSE q + 1

\* dict(Counter(names).most_common(5)): the five most frequent names with
\* their counts, names of one count in the order first met
most_common_5(names) ==
    LET count(x) == Cardinality({i \in DOMAIN names : names[i] = x})
        first(x) == CHOOSE i \in DOMAIN names :
                        names[i] = x /\ \A j \in 1..(i - 1) : names[j] # x
        before(x, y) == \/ count(x) > count(y)
                        \/ count(x) = count(y) /\ first(x) < first(y)
        top == {x \in Range(names) :
                   Cardinality({y \in Range(names) : before(y, x)}) < 5}
    IN  [x \in top |-> count(x)]

\* clock is the clock as read for cutoff_date, status_clock as read by
\* calculate_developer_status; the dictionary returned, or the exception
\* that leaves the call
get_developer_insights(user, project, logs, days, clock, status_clock, order) ==
    LET recent_logs == recent_logs_of(logs, user, project, clock - days * 86400)
        parsed == IF recent_logs.raised # "none" THEN recent_logs
                  ELSE parse_chat_logs(recent_logs.value)
    IN  IF parsed.raised # "none" THEN [raised |-> parsed.raised]
        ELSE LET list == group_into_sessions(parsed.value, 30, order)
                 all_files == Flatten([i \in DOMAIN list |-> list[i].files_mentioned])
                 all_features ==
                     Flatten([i \in DOMAIN list |-> list[i].features_discussed])
             IN  [user_id |-> user,
                  project_id |-> project,
                  period_days |-> days,
                  total_sessions |-> Len(list),
                  total_interactions |-> total_interactions(list),
                  avg_session_length |->
                      IF list = <<>> THEN 0
                      ELSE round1(total_interactions(list), Len(list)),
                  most_worked_files |-> most_common_5(all_files),
                  focus_areas |-> most_common_5(all_features),
                  recent_activity |->
                      calculate_developer_status(list, user, project, 2,
                                                 status_clock, order)]

(***************************************************************************)
(* SupabaseAnalyticsService: get_team_dashboard_data and get_project_list  *)
(* The table is the list of rows of claude_chat_logs; the queries succeed. *)
(***************************************************************************)
\* id.replace("_", " ").title() for the ids that occur
_format_project_name(project) ==
    IF project = "c" THEN "C"
    ELSE IF project = "b_c" THEN "B C"
    ELSE IF project = "" THEN ""
    ELSE "?"

_format_user_name(user) ==
    IF user = "a" THEN "A"
    ELSE IF user = "d" THEN "D"
    ELSE IF user = "a_b" THEN "A B"
    ELSE IF user = "" THEN ""
    ELSE "?"

\* the initials of the first two words, or the first two characters
_generate_avatar(user) ==
    IF user = "a" THEN "A"
    ELSE IF user = "d" THEN "D"
    ELSE IF user = "a_b" THEN "AB"
    ELSE IF user = "" THEN ""
    ELSE "?"

_map_status(analytics_status) ==
    IF analytics_status = "flow" THEN "flow"
    ELSE IF analytics_status = "slow" THEN "slow"
    ELSE IF analytics_status = "stuck" THEN "blocked"
    ELSE "flow"

\* 'N min', 'H hr' or 'H.T hrs'
_format_duration(minutes) ==
    IF minutes < 60 THEN [value |-> minutes, unit |-> "min"]
    ELSE IF minutes % 60 = 0 THEN [value |-> minutes \div 60, unit |-> "hr"]
    ELSE [value |-> minutes \div 60, tenths |-> (minutes % 60) \div 6, unit |-> "hrs"]

\* the seconds whose text _format_last_refresh is given: the clock as read
\* up to a second, a minute and an hour earlier
RefreshSeconds(clock) == {clock, clock - 1, clock - 60, clock - 3600}

\* the text is parsed back and compared with the clock; a text that is not
\* a timestamp gives 'Unknown'
_format_last_refresh(iso_timestamp, clock) ==
    IF \E ts \in RefreshSeconds(clock) : isoformat(ts) = iso_timestamp
    THEN LET ts == CHOOSE ts \in RefreshSeconds(clock) : isoformat(ts) = iso_timestamp
         IN  IF clock - ts < 60 THEN [text |-> "Just now"]
             ELSE IF clock - ts < 3600
             THEN [value |-> (clock - ts) \div 60, text |-> "min ago"]
             ELSE [value |-> (clock - ts) \div 3600, text |-> "hr ago"]
    ELSE [text |-> "Unknown"]

_calculate_status_distribution(team_status) ==
    [active  |-> Len(SelectSeq(team_status, LAMBDA dev : dev.status = "flow")),
     slow    |-> Len(SelectSeq(team_status, LAMBDA dev : dev.status = "slow")),
     blocked |-> Len(SelectSeq(team_status, LAMBDA dev : dev.status = "stuck"))]

\* file_collision -> file, feature_collision -> feature
collision_kind(type) ==
    IF type = "file_collision" THEN "file"
    ELSE IF type = "feature_collision" THEN "feature"
    ELSE type

_transform_to_frontend_format(dash, clock) ==
    [id |-> dash.project_id,
     name |-> _format_project_name(dash.project_id),
     activeDevelopers |->
         Len(SelectSeq(dash.team_status, LAMBDA dev : dev.status # "idle")),
     statusDistribution |-> _calculate_status_distribution(dash.team_status),
     lastRefresh |-> _format_last_refresh(dash.last_updated, clock),
     hasCollisions |-> Len(dash.collisions) > 0,
     developers |->
         [i \in DOMAIN dash.team_status |->
             LET dev == dash.team_status[i]
             IN  [id |-> dev.user_id,
                  name |-> _format_user_name(dev.user_id),
                  avatar |-> _generate_avatar(dev.user_id),
                  currentTask |-> dev.current_task,
                  status |-> _map_status(dev.status),
                  duration |-> _format_duration(dev.duration_minutes),
                  fileName |-> IF dev.files_working_on # <<>>
                               THEN dev.files_working_on[1] ELSE "None"]],
     collisions |->
         [i \in DOMAIN dash.collisions |->
             [id |-> <<"collision", i - 1>>,
              developers |-> dash.collisions[i].users,
              file |-> dash.collisions[i].resource,
              type |-> collision_kind(dash.collisions[i].type)]],
     metrics |-> dash.project_metrics]

_empty_dashboard_response(project) ==
    [id |-> project,
     name |-> _format_project_name(project),
     activeDevelopers |-> 0,
     statusDistribution |-> [active |-> 0, slow |-> 0, blocked |-> 0],
     lastRefresh |-> [text |-> "No recent activity"],
     hasCollisions |-> FALSE,
     developers |-> <<>>,
     collisions |-> <<>>,
     metrics |-> <<>>]

\* the second a row's interaction_timestamp denotes
row_time(row) == fromisoformat(row.interaction_timestamp).value

RECURSIVE order_by_timestamp(_)
order_by_timestamp(rows) ==
    IF rows = <<>> THEN <<>>
    ELSE LET rest == order_by_timestamp(SubSeq(rows, 1, Len(rows) - 1))
             row  == rows[Len(rows)]
             k    == Cardinality({i \in DOMAIN rest : row_time(rest[i]) <= row_time(row)})
         IN  SubSeq(rest, 1, k) \o <<row>> \o SubSeq(rest, k + 1, Len(rest))

\* the rows of the project not older than the cutoff, in ascending order of
\* timestamp; the query leaves the order of rows with one timestamp open:
\* tie tells whether they come in table order or in reverse
fetch_chat_logs(table, project, hours_back, clock, tie) ==
    LET rows == SelectSeq(table, LAMBDA row :
                    /\ row.project_id = project
                    /\ row_time(row) >= clock - hours_back * 3600)
    IN  order_by_timestamp(IF tie = "reverse" THEN Reversed(rows) ELSE rows)

\* SupabaseAnalyticsService.get_team_dashboard_data: the dictionary
\* returned, or the exception that leaves the call
get_team_dashboard_data(table, project, reads, order, tie) ==
    LET logs == fetch_chat_logs(table, project, 24, reads.status, tie)
    IN  IF logs = <<>> THEN _empty_dashboard_response(project)
        ELSE LET dash == get_team_dashboard(project, logs, reads, order)
             IN  IF "raised" \in DOMAIN dash THEN dash
                 ELSE _transform_to_frontend_format(dash, reads.last_updated)

\* the loop of get_project_list over project_ids: the entries, or the
\* exception raised by the first project whose dashboard raises one or
\* lacks a key that is read
RECURSIVE project_entries(_, _, _, _, _)
project_entries(project_ids, table, reads, order, tie) ==
    IF project_ids = <<>> THEN [raised |-> "none", value |-> <<>>]
    ELSE LET project == Head(project_ids)
             dash == get_team_dashboard_data(table, project, reads, order, tie)
             rest == project_entries(Tail(project_ids), table, reads, order, tie)
         IN  IF "raised" \in DOMAIN dash THEN [raised |-> dash.raised]
             ELSE IF "team_status" \notin DOMAIN dash THEN [raised |-> "KeyError"]
             ELSE IF dash.team_status = <<>> THEN rest
             ELSE IF {"last_updated", "collisions"} \ DOMAIN dash # {}
             THEN [raised |-> "KeyError"]
             ELSE IF rest.raised # "none" THEN rest
             ELSE [raised |-> "none",
                   value |->
                       <<[id |-> project,
                          name |-> _format_project_name(project),
                          activeDevelopers |->
                              Len(SelectSeq(dash.team_status,
                                            LAMBDA dev : dev.status # "idle")),
                          statusDistribution |->
                              _calculate_status_distribution(dash.team_status),
                          lastRefresh |-> dash.last_updated,
                          hasCollisions |-> Len(dash.collisions) > 0,
                          developers |-> dash.team_status]>> \o rest.value]

\* the projects returned and what the except branch printed ("none" when
\* it was not taken: the branch returns the empty list)
get_project_list(table, reads, order, tie) ==
    LET rows == SelectSeq(table, LAMBDA row :
                    row_time(row) >= reads.status - 7 * 24 * 3600)
        project_ids == ListOf({rows[i].project_id : i \in DOMAIN rows}, order)
        entries == project_entries(project_ids, table, reads, order, tie)
    IN  IF entries.raised # "none"
        THEN [value |-> <<>>, printed |-> entries.raised]
        ELSE [value |-> entries.value, printed |-> "none"]

(***************************************************************************)
(* Bounds and input domains                                                *)
(***************************************************************************)
\* longest interaction list handed to group_into_sessions
MaxLen == 3

\* longest session list handed to calculate_developer_status
MaxSessions == 2

\* longest session list handed to detect_team_collisions
MaxTeamSessions == 3

\* (user_id, project_id) pairs of the records
Keys == {<<"a", "b_c">>, <<"a", "c">>, <<"a_b", "c">>}

\* interaction timestamps, seconds: minutes 0, 5, 5 and a second, 10, 50
Times == {0, 300, 301, 600, 3000}

\* values of session_gap_minutes (the code accepts any int)
Gaps == {-1, 0, 5, 30}

\* one record per (key, timestamp) drawn; the id is the place in the list
RecordsOf(l) ==
    [i \in DOMAIN l |->
        ChatInteraction(i, l[i][1][1], l[i][1][2], l[i][2], <<>>, <<>>)]

\* records at minutes 0, 5, 10 and 50 of one user and project
ScenarioA ==
    RecordsOf(<<<<(<<"a", "c">>), 0>>, <<(<<"a", "c">>), 300>>,
                <<(<<"a", "c">>), 600>>, <<(<<"a", "c">>), 3000>>>>)

\* two records of one user and project with one timestamp, the record with
\* the greater id first in the list
ReorderedTies ==
    << ChatInteraction(2, "a", "c", 300, <<>>, <<>>),
       ChatInteraction(1, "a", "c", 300, <<>>, <<>>) >>

InputLists ==
    {RecordsOf(l) : l \in SeqUpTo(Keys \X Times, MaxLen)}
        \cup {ScenarioA, ReorderedTies}

\* the clock and the lookbacks of the status and collision calls: with a
\* lookback of 2 hours the cutoff is second 3600
Clocks == {10800}
Lookbacks == {1, 2}
TeamLookbacks == {2}
EndTimes == {3600, 3601}

\* n records of one user and project, a minute apart, the last at end_time;
\* the first query is the given text
Burst(user, project, n, end_time, text) ==
    [i \in 1..n |->
        ChatInteraction(i, user, project, end_time - (n - i) * 60,
                        IF i = 1 THEN text ELSE <<>>, <<>>)]

\* the session _create_session makes of such a burst
BurstSession(user, project, n, end_time, text) ==
    _create_session(Burst(user, project, n, end_time, text), user, project, 1,
                    CHOOSE o \in Orders(StringsOf(Burst(user, project, n, end_time, text))) : TRUE)

\* sessions handed to calculate_developer_status
StatusCounts == {1, 3, 6}
StatusTexts ==
    {<<>>, <<"auth.js", "fixed">>, <<"still not working">>,
     <<"fixed", "still not working">>}
StatusSessions ==
    {BurstSession(k[1], k[2], n, e, t) :
        k \in Keys, n \in StatusCounts, e \in EndTimes, t \in StatusTexts}

\* sessions handed to detect_team_collisions
TeamUsers == {"a", "a_b", "d"}
TeamScopes == {<<"c", 3601>>, <<"c", 3600>>, <<"b_c", 3601>>}
TeamTexts == {<<"auth.js", "utils.py">>, <<"utils.py">>, <<"login", "auth">>}
TeamSessions ==
    {BurstSession(u, sc[1], 1, sc[2], t) :
        u \in TeamUsers, sc \in TeamScopes, t \in TeamTexts}

\* conversations of one user and project handed to the two summarizers and
\* to the grouping-then-status pipeline: the i-th turn is at TurnTime(i)
\* (pairs of turns two minutes apart, the pairs 38 minutes apart), its
\* query and response are one of TurnTexts
MaxTurns == 4

TurnTime(i) == 3600 + ((i - 1) \div 2) * 2400 + ((i - 1) % 2) * 120

TurnTexts ==
    { <<(<<"hello">>), <<>>>>,
      <<(<<"bug">>), <<>>>>,
      <<(<<"login">>), <<>>>>,
      <<ManyFiles \o <<"perfect!", "bug">>, <<>>>>,
      <<(<<"auth.js", "same error">>), <<"fixed", "fixed">>>> }

Conversations ==
    {[i \in DOMAIN l |-> ChatInteraction(i, "a", "c", TurnTime(i), l[i][1], l[i][2])] :
        l \in SeqUpTo(TurnTexts, MaxTurns)}

\* thresholds that split a conversation into single turns, pairs, or not at all
PipelineGaps == {1, 30, 60}

\* raw logs handed to get_team_dashboard: well-formed ones of two users of
\* project "c", and malformed ones (a timestamp that is no date, user_id or
\* project_id absent, user_id or project_id empty)
MaxLogs == 3

RawLog(user, project, stamp) ==
    [id |-> 0, user_query |-> <<"auth.js">>, claude_response |-> <<>>,
     user_id |-> user, project_id |-> project,
     interaction_timestamp |-> stamp, created_at |-> stamp, updated_at |-> stamp]

Without(log, key) == [k \in DOMAIN log \ {key} |-> log[k]]

WellFormedLogs == {RawLog(u, "c", iso_z(ts)) : u \in {"a", "d"}, ts \in LogSeconds}

MalformedLogs ==
    { RawLog("a", "c", "not-a-date"),
      Without(RawLog("a", "c", iso_z(9000)), "user_id"),
      RawLog("", "c", iso_z(9000)),
      Without(RawLog("a", "c", iso_z(9000)), "project_id"),
      RawLog("a", "", iso_z(9000)) }

\* the id of a log is its place in the list
ChatLogLists ==
    {[i \in DOMAIN l |-> [l[i] EXCEPT !.id = i]] :
        l \in SeqUpTo(WellFormedLogs \cup MalformedLogs, MaxLogs)}

\* is the log one that the parser reads and whose author and scope are not empty?
WellFormed(log) ==
    /\ first_exception(log, log_keys) = "none"
    /\ log.user_id # ""
    /\ log.project_id # ""

\* mutant of ClockReads: the collision call reads the clock before the
\* status calls
ClockReads_collisions_first(clock) ==
    { [status |-> clock, collisions |-> clock, metrics |-> clock,
       last_updated |-> clock],
      [status |-> clock + 1, collisions |-> clock, metrics |-> clock + 1,
       last_updated |-> clock + 1] }

\* the clock as read during one call that starts at clock: it does not
\* tick, or it ticks once between the status calls and the collision call
ClockReads(clock) ==
    { [status |-> clock, collisions |-> clock, metrics |-> clock,
       last_updated |-> clock],
      [status |-> clock, collisions |-> clock + 1, metrics |-> clock + 1,
       last_updated |-> clock + 1] }

\* iteration orders of the user ids, file names and feature names of the logs
DashboardOrders(logs) ==
    {user_order \o order :
        user_order \in Orders({logs[i].user_id :
                                  i \in {j \in DOMAIN logs : "user_id" \in DOMAIN logs[j]}}),
        order \in IterationOrders(StringsOf(logs))}

(***************************************************************************)
(* The caller's list after each operation.  The operations read their      *)
(* arguments and build new lists: group_into_sessions sorts the lists of   *)
(* its own defaultdict, calculate_developer_status sorts the list made by  *)
(* its comprehension, detect_team_collisions and _check_collision only     *)
(* read the sessions' fields.                                              *)
(***************************************************************************)
interactions_after_group_into_sessions(list) == list

\* mutant of sessions_after_calculate_developer_status: the sort by recency
\* is applied to the caller's list
sessions_sorted_in_place(list) == SortByRecency(list)

sessions_after_calculate_developer_status(list) == list

sessions_after_detect_team_collisions(list) == list

\* one calculate_developer_status per user, then detect_team_collisions
sessions_after_generate_team_dashboard_data(list) ==
    IF list = <<>> THEN list
    ELSE sessions_after_detect_team_collisions(
             sessions_after_calculate_developer_status(list))

(***************************************************************************)
(* Segmentation: one call of group_into_sessions on a drawn list           *)
(***************************************************************************)
Init ==
    /\ pc = "start"
    /\ interactions \in InputLists
    /\ session_gap_minutes \in Gaps
    /\ sessions = <<>>
    /\ user_id = "" /\ project_id = "" /\ lookback_hours = 0 /\ now = 0
    /\ activity = <<>> /\ collisions = <<>>
    /\ context = <<>> /\ chat_logs = <<>> /\ dashboard = <<>>
    /\ insights = <<>> /\ projects = <<>> /\ team_contexts = <<>>
    /\ active_sessions = <<>> /\ handlers = <<>>

GroupIntoSessions ==
    /\ pc = "start"
    /\ \E order \in IterationOrders(StringsOf(interactions)) :
          sessions' = group_into_sessions(interactions, session_gap_minutes, order)
    /\ interactions' = interactions_after_group_into_sessions(interactions)
    /\ pc' = "grouped"
    /\ UNCHANGED <<session_gap_minutes, user_id, project_id,
                   lookback_hours, now, activity, collisions,
                   context, chat_logs, dashboard,
                   insights, projects, team_contexts, active_sessions, handlers>>

Next == GroupIntoSessions

Spec == Init /\ [][Next]_vars

(***************************************************************************)
(* Status: one call of calculate_developer_status on a drawn session list  *)
(***************************************************************************)
InitStatus ==
    /\ pc = "start"
    /\ interactions = <<>>
    /\ session_gap_minutes = 30
    /\ sessions \in SeqUpTo(StatusSessions, MaxSessions)
    /\ user_id = "a" /\ project_id = "c"
    /\ lookback_hours \in Lookbacks
    /\ now \in Clocks
    /\ activity = <<>> /\ collisions = <<>>
    /\ context = <<>> /\ chat_logs = <<>> /\ dashboard = <<>>
    /\ insights = <<>> /\ projects = <<>> /\ team_contexts = <<>>
    /\ active_sessions = <<>> /\ handlers = <<>>

CalculateDeveloperStatus ==
    /\ pc = "start"
    /\ \E order \in IterationOrders(files_of(sessions)) :
          activity' = calculate_developer_status(sessions, user_id, project_id,
                                                 lookback_hours, now, order)
    /\ sessions' = sessions_after_calculate_developer_status(sessions)
    /\ pc' = "status"
    /\ UNCHANGED <<interactions, session_gap_minutes, user_id,
                   project_id, lookback_hours, now, collisions,
                   context, chat_logs, dashboard,
                   insights, projects, team_contexts, active_sessions, handlers>>

NextStatus == CalculateDeveloperStatus

SpecStatus == InitStatus /\ [][NextStatus]_vars

(***************************************************************************)
(* Collisions: one call of detect_team_collisions on a drawn session list  *)
(***************************************************************************)
InitCollisions ==
    /\ pc = "start"
    /\ interactions = <<>>
    /\ session_gap_minutes = 30
    /\ sessions \in SeqUpTo(TeamSessions, MaxTeamSessions)
    /\ user_id = "" /\ project_id = "c"
    /\ lookback_hours \in TeamLookbacks
    /\ now \in Clocks
    /\ activity = <<>> /\ collisions = <<>>
    /\ context = <<>> /\ chat_logs = <<>> /\ dashboard = <<>>
    /\ insights = <<>> /\ projects = <<>> /\ team_contexts = <<>>
    /\ active_sessions = <<>> /\ handlers = <<>>

DetectTeamCollisions ==
    /\ pc = "start"
    /\ \E file_order \in Orders(files_of(sessions)),
          feature_order \in Orders(features_of(sessions)) :
          collisions' = detect_team_collisions(sessions, project_id, lookback_hours,
                                               now, file_order \o feature_order)
    /\ sessions' = sessions_after_detect_team_collisions(sessions)
    /\ pc' = "collisions"
    /\ UNCHANGED <<interactions, session_gap_minutes, user_id,
                   project_id, lookback_hours, now, activity,
                   context, chat_logs, dashboard,
                   insights, projects, team_contexts, active_sessions, handlers>>

NextCollisions == DetectTeamCollisions

SpecCollisions == InitCollisions /\ [][NextCollisions]_vars

(***************************************************************************)
(* Pipeline: a conversation is grouped by group_into_sessions and the      *)
(* sessions are handed to calculate_developer_status; the legacy           *)
(* summarizer reads the same conversation                                  *)
(***************************************************************************)
InitPipeline ==
    /\ pc = "start"
    /\ interactions \in Conversations
    /\ session_gap_minutes \in PipelineGaps
    /\ sessions = <<>>
    /\ user_id = "a" /\ project_id = "c"
    /\ lookback_hours \in TeamLookbacks
    /\ now \in Clocks
    /\ activity = <<>> /\ collisions = <<>>
    /\ context = <<>> /\ chat_logs = <<>> /\ dashboard = <<>>
    /\ insights = <<>> /\ projects = <<>> /\ team_contexts = <<>>
    /\ active_sessions = <<>> /\ handlers = <<>>

StatusOfGrouped ==
    /\ pc = "grouped"
    /\ \E order \in IterationOrders(files_of(sessions)) :
          activity' = calculate_developer_status(sessions, user_id, project_id,
                                                 lookback_hours, now, order)
    /\ sessions' = sessions_after_calculate_developer_status(sessions)
    /\ pc' = "status"
    /\ UNCHANGED <<interactions, session_gap_minutes, user_id,
                   project_id, lookback_hours, now, collisions,
                   context, chat_logs, dashboard,
                   insights, projects, team_contexts, active_sessions, handlers>>

ExtractConversationContext ==
    /\ pc = "start"
    /\ \E order \in IterationOrders(StringsOf(interactions)) :
          context' = extract_conversation_context(MessagesOf(interactions), user_id,
                                                  now, order)
    /\ pc' = "context"
    /\ UNCHANGED <<interactions, session_gap_minutes, sessions, user_id,
                   project_id, lookback_hours, now, activity, collisions,
                   chat_logs, dashboard,
                   insights, projects, team_contexts, active_sessions, handlers>>

NextPipeline == GroupIntoSessions \/ StatusOfGrouped \/ ExtractConversationContext

SpecPipeline == InitPipeline /\ [][NextPipeline]_vars

(***************************************************************************)
(* Dashboard: ChatLogsAPI.get_team_dashboard on drawn raw logs, and a      *)
(* second call on the same logs a second later                             *)
(***************************************************************************)
InitDashboard ==
    /\ pc = "start"
    /\ interactions = <<>>
    /\ session_gap_minutes = 30
    /\ sessions = <<>>
    /\ user_id = "" /\ project_id = "c"
    /\ lookback_hours = 2
    /\ now \in Clocks
    /\ activity = <<>> /\ collisions = <<>>
    /\ context = <<>>
    /\ chat_logs \in ChatLogLists
    /\ dashboard = <<>>
    /\ insights = <<>> /\ projects = <<>> /\ team_contexts = <<>>
    /\ active_sessions = <<>> /\ handlers = <<>>

GetTeamDashboard ==
    /\ pc = "start"
    /\ \E reads \in ClockReads(now), order \in DashboardOrders(chat_logs) :
          dashboard' = get_team_dashboard(project_id, chat_logs, reads, order)
    /\ pc' = IF "raised" \in DOMAIN dashboard' THEN "raised" ELSE "dashboard"
    /\ UNCHANGED <<interactions, session_gap_minutes, sessions, user_id,
                   project_id, lookback_hours, now, activity, collisions,
                   context, chat_logs,
                   insights, projects, team_contexts, active_sessions, handlers>>

GetTeamDashboardAgain ==
    /\ pc = "dashboard"
    /\ now' = now + 1
    /\ \E reads \in ClockReads(now + 1), order \in DashboardOrders(chat_logs) :
          dashboard' = get_team_dashboard(project_id, chat_logs, reads, order)
    /\ pc' = "again"
    /\ UNCHANGED <<interactions, session_gap_minutes, sessions, user_id,
                   project_id, lookback_hours, activity, collisions,
                   context, chat_logs,
                   insights, projects, team_contexts, active_sessions, handlers>>

NextDashboard == GetTeamDashboard \/ GetTeamDashboardAgain

SpecDashboard == InitDashboard /\ [][NextDashboard]_vars

(***************************************************************************)
(* Arguments: a list is grouped and the sessions are handed to             *)
(* calculate_developer_status, detect_team_collisions or                   *)
(* generate_team_dashboard_data                                            *)
(***************************************************************************)
ArgumentTimes == {4000, 5000, 9000}

ArgumentLists ==
    {RecordsOf(l) : l \in SeqUpTo({<<"a", "c">>, <<"d", "c">>} \X ArgumentTimes, MaxLen)}

InitArguments ==
    /\ pc = "start"
    /\ interactions \in ArgumentLists
    /\ session_gap_minutes \in {5, 30}
    /\ sessions = <<>>
    /\ user_id = "a" /\ project_id = "c"
    /\ lookback_hours = 2
    /\ now \in Clocks
    /\ activity = <<>> /\ collisions = <<>>
    /\ context = <<>> /\ chat_logs = <<>> /\ dashboard = <<>>
    /\ insights = <<>> /\ projects = <<>> /\ team_contexts = <<>>
    /\ active_sessions = <<>> /\ handlers = <<>>

CollisionsOfGrouped ==
    /\ pc = "grouped"
    /\ collisions' = detect_team_collisions(sessions, project_id, lookback_hours,
                                            now, <<>>)
    /\ sessions' = sessions_after_detect_team_collisions(sessions)
    /\ pc' = "collisions"
    /\ UNCHANGED <<interactions, session_gap_minutes, user_id,
                   project_id, lookback_hours, now, activity,
                   context, chat_logs, dashboard,
                   insights, projects, team_contexts, active_sessions, handlers>>

DashboardOfGrouped ==
    /\ pc = "grouped"
    /\ \E reads \in ClockReads(now),
          order \in Orders({sessions[i].user_id : i \in DOMAIN sessions}) :
          dashboard' = generate_team_dashboard_data(sessions, project_id, reads, order)
    /\ sessions' = sessions_after_generate_team_dashboard_data(sessions)
    /\ pc' = "dashboard"
    /\ UNCHANGED <<interactions, session_gap_minutes, user_id,
                   project_id, lookback_hours, now, activity, collisions,
                   context, chat_logs,
                   insights, projects, team_contexts, active_sessions, handlers>>

NextArguments ==
    GroupIntoSessions \/ StatusOfGrouped \/ CollisionsOfGrouped \/ DashboardOfGrouped

SpecArguments == InitArguments /\ [][NextArguments]_vars

(***************************************************************************)
(* Service: one call of ChatLogsAPI.get_team_dashboard, of                 *)
(* ChatLogsAPI.get_developer_insights, of                                  *)
(* SupabaseAnalyticsService.get_team_dashboard_data or of get_project_list *)
(* on a drawn table of well-formed rows                                    *)
(***************************************************************************)
ServiceLogs == WellFormedLogs \cup {RawLog("a", "b_c", iso_z(9000))}

ServiceTables ==
    {[i \in DOMAIN l |-> [l[i] EXCEPT !.id = i]] : l \in SeqUpTo(ServiceLogs, MaxLogs)}

\* the days argument of get_developer_insights
InsightDays == {0, 7}

InitService ==
    /\ pc = "start"
    /\ interactions = <<>>
    /\ session_gap_minutes = 30
    /\ sessions = <<>>
    /\ user_id = "a" /\ project_id = "c"
    /\ lookback_hours = 2
    /\ now \in Clocks
    /\ activity = <<>> /\ collisions = <<>>
    /\ context = <<>>
    /\ chat_logs \in ServiceTables
    /\ dashboard = <<>>
    /\ insights = <<>> /\ projects = <<>> /\ team_contexts = <<>>
    /\ active_sessions = <<>> /\ handlers = <<>>

GetDeveloperInsights ==
    /\ pc = "start"
    /\ \E days \in InsightDays, status_clock \in {now, now + 1},
          order \in DashboardOrders(chat_logs) :
          insights' = get_developer_insights(user_id, project_id, chat_logs, days,
                                             now, status_clock, order)
    /\ pc' = IF "raised" \in DOMAIN insights' THEN "raised" ELSE "insights"
    /\ UNCHANGED <<interactions, session_gap_minutes, sessions, user_id,
                   project_id, lookback_hours, now, activity, collisions,
                   context, chat_logs, dashboard,
                   projects, team_contexts, active_sessions, handlers>>

\* the iteration orders of the project ids of the table
ProjectOrders(table) == Orders({table[i].project_id : i \in DOMAIN table})

ServiceGetTeamDashboardData ==
    /\ pc = "start"
    /\ \E reads \in ClockReads(now), order \in DashboardOrders(chat_logs),
          tie \in {"table", "reverse"} :
          dashboard' = get_team_dashboard_data(chat_logs, project_id, reads, order, tie)
    /\ pc' = IF "raised" \in DOMAIN dashboard' THEN "raised" ELSE "frontend"
    /\ UNCHANGED <<interactions, session_gap_minutes, sessions, user_id,
                   project_id, lookback_hours, now, activity, collisions,
                   context, chat_logs,
                   insights, projects, team_contexts, active_sessions, handlers>>

GetProjectList ==
    /\ pc = "start"
    /\ \E reads \in ClockReads(now), order \in DashboardOrders(chat_logs),
          project_order \in ProjectOrders(chat_logs), tie \in {"table", "reverse"} :
          projects' = get_project_list(chat_logs, reads, project_order \o order, tie)
    /\ pc' = "projects"
    /\ UNCHANGED <<interactions, session_gap_minutes, sessions, user_id,
                   project_id, lookback_hours, now, activity, collisions,
                   context, chat_logs, dashboard,
                   insights, team_contexts, active_sessions, handlers>>

NextService ==
    GetTeamDashboard \/ GetDeveloperInsights \/ ServiceGetTeamDashboardData
        \/ GetProjectList

SpecService == InitService /\ [][NextService]_vars

(***************************************************************************)
(* Legacy: one call of ObjectiveMetricsEngine.detect_team_collisions on a  *)
(* drawn list of contexts, each made by extract_conversation_context from  *)
(* one user message                                                        *)
(***************************************************************************)
\* longest list of contexts handed to the legacy engine
MaxContexts == 2

LegacyTexts == {<<"auth.js">>, <<"utils.py">>, <<"login">>, <<"hello">>}

LegacyContexts ==
    {extract_conversation_context(<<[role |-> "user", content |-> text]>>, dev,
                                  3600, MasterOrder) :
        dev \in {"a", "d", "e"}, text \in LegacyTexts}

InitLegacy ==
    /\ pc = "start"
    /\ interactions = <<>>
    /\ session_gap_minutes = 30
    /\ sessions = <<>>
    /\ user_id = "" /\ project_id = ""
    /\ lookback_hours = 0
    /\ now \in Clocks
    /\ activity = <<>> /\ collisions = <<>>
    /\ context = <<>> /\ chat_logs = <<>> /\ dashboard = <<>>
    /\ insights = <<>> /\ projects = <<>>
    /\ team_contexts \in SeqUpTo(LegacyContexts, MaxContexts)
    /\ active_sessions = <<>> /\ handlers = <<>>

LegacyDetectTeamCollisions ==
    /\ pc = "start"
    /\ \E file_order \in Orders(files_of_contexts(team_contexts)),
          feature_order \in Orders(features_of_contexts(team_contexts)) :
          collisions' = legacy_detect_team_collisions(team_contexts, now,
                                                      file_order \o feature_order)
    /\ pc' = "collisions"
    /\ UNCHANGED <<interactions, session_gap_minutes, sessions, user_id,
                   project_id, lookback_hours, now, activity,
                   context, chat_logs, dashboard,
                   insights, projects, team_contexts, active_sessions, handlers>>

NextLegacy == LegacyDetectTeamCollisions

SpecLegacy == InitLegacy /\ [][NextLegacy]_vars

(***************************************************************************)
(* Websocket: ClaudeCodeIntegration.websocket_handler, one coroutine per   *)
(* connection on one event loop.  A step runs a coroutine from one await   *)
(* that suspends it to the next; an exception, the except clause and the   *)
(* finally clause run in the step that raises.                             *)
(***************************************************************************)
\* number of websocket objects that are alive at one time
MaxConnections == 2

Connections == 1..MaxConnections

\* the local name developer_id before its assignment
UNBOUND == <<>>

\* f"developer_{id(websocket)}"
_authenticate_connection(websocket) == <<"developer", websocket>>

\* the exceptions that end the handler
Exceptions == {"ConnectionClosed", "Exception"}

\* the dictionary without the key
Deleted(dict, key) == [k \in DOMAIN dict \ {key} |-> dict[k]]

\* the finally clause: the registry after it
active_sessions_after_finally(registry, developer_id) ==
    IF developer_id = UNBOUND THEN registry
    ELSE IF developer_id \in DOMAIN registry THEN Deleted(registry, developer_id)
    ELSE registry

\* the way the handler ends: ConnectionClosed is caught, any other pending
\* exception leaves the handler after the finally clause, and reading the
\* unbound developer_id in the finally clause raises UnboundLocalError
handler_result(developer_id, pending) ==
    IF developer_id = UNBOUND THEN "UnboundLocalError"
    ELSE IF pending = "ConnectionClosed" THEN "returned"
    ELSE pending

Idle == [pc |-> "idle", developer_id |-> UNBOUND, result |-> "none", sent |-> FALSE]

InitWebsocket ==
    /\ pc = "serving"
    /\ interactions = <<>>
    /\ session_gap_minutes = 30
    /\ sessions = <<>>
    /\ user_id = "" /\ project_id = ""
    /\ lookback_hours = 0
    /\ now = 0
    /\ activity = <<>> /\ collisions = <<>>
    /\ context = <<>> /\ chat_logs = <<>> /\ dashboard = <<>>
    /\ insights = <<>> /\ projects = <<>> /\ team_contexts = <<>>
    /\ active_sessions = <<>>
    /\ handlers = [w \in Connections |-> Idle]

WebsocketUnchanged ==
    UNCHANGED <<pc, interactions, session_gap_minutes, sessions, user_id,
                project_id, lookback_hours, now, activity, collisions,
                context, chat_logs, dashboard,
                insights, projects, team_contexts>>

\* the handler ends in this step, with the pending exception ("returned"
\* when the loop ended without one)
Ends(w, pending) ==
    /\ active_sessions' =
           active_sessions_after_finally(active_sessions, handlers[w].developer_id)
    /\ handlers' = [handlers EXCEPT
           ![w].pc = "done",
           ![w].result = handler_result(handlers[w].developer_id, pending)]
    /\ WebsocketUnchanged

\* the server calls the handler for a new connection; a websocket object
\* whose handler has ended may be collected and its id used again
Connect(w) ==
    /\ handlers[w].pc \in {"idle", "done"}
    /\ handlers' = [handlers EXCEPT ![w] = [Idle EXCEPT !.pc = "authenticating"]]
    /\ UNCHANGED active_sessions
    /\ WebsocketUnchanged

\* lines 387-388: the id is returned and the connection registered
Authenticate(w) ==
    /\ handlers[w].pc = "authenticating"
    /\ LET developer_id == _authenticate_connection(w)
       IN  /\ active_sessions' =
                  [k \in DOMAIN active_sessions \cup {developer_id} |->
                      IF k = developer_id THEN w ELSE active_sessions[k]]
           /\ handlers' = [handlers EXCEPT ![w].pc = "waiting",
                                            ![w].developer_id = developer_id]
    /\ WebsocketUnchanged

\* line 387: the awaited authentication raises; developer_id stays unbound
AuthenticationFails(w) ==
    /\ handlers[w].pc = "authenticating"
    /\ \E pending \in Exceptions : Ends(w, pending)

\* lines 390-392: a message arrives, is decoded and _handle_message awaits
\* the suggestion engine
ReceiveMessage(w) ==
    /\ handlers[w].pc = "waiting"
    /\ handlers' = [handlers EXCEPT ![w].pc = "handling"]
    /\ UNCHANGED active_sessions
    /\ WebsocketUnchanged

\* line 391: json.loads raises on a message that is not JSON
MessageRaises(w) ==
    /\ handlers[w].pc = "waiting"
    /\ Ends(w, "Exception")

\* lines 426-436: the engine returns; with suggestions the websocket is
\* looked up in the registry and, if found, the response awaits its send
MessageHandled(w) ==
    /\ handlers[w].pc = "handling"
    /\ \E suggestions \in BOOLEAN :
          handlers' = [handlers EXCEPT
              ![w].pc = "waiting",
              ![w].sent = suggestions /\ handlers[w].developer_id \in DOMAIN active_sessions]
    /\ UNCHANGED active_sessions
    /\ WebsocketUnchanged

\* an await of _handle_message raises (the engine, or send on a closed
\* connection)
HandlingRaises(w) ==
    /\ handlers[w].pc = "handling"
    /\ \E pending \in Exceptions : Ends(w, pending)

\* line 390: the iteration raises ConnectionClosed
ConnectionClosed(w) ==
    /\ handlers[w].pc = "waiting"
    /\ Ends(w, "ConnectionClosed")

\* line 390: the iteration ends at a normal close
NormalClose(w) ==
    /\ handlers[w].pc = "waiting"
    /\ Ends(w, "returned")

NextWebsocket ==
    \E w \in Connections :
        \/ Connect(w)
        \/ Authenticate(w)
        \/ AuthenticationFails(w)
        \/ ReceiveMessage(w)
        \/ MessageRaises(w)
        \/ MessageHandled(w)
        \/ HandlingRaises(w)
        \/ ConnectionClosed(w)
        \/ NormalClose(w)

SpecWebsocket == InitWebsocket /\ [][NextWebsocket]_vars

(***************************************************************************)
(* Properties of segmentation (checked under Spec)                         *)
(***************************************************************************)
\* the places (session, position) of the output
Places ==
    UNION {{<<s, j>> : j \in DOMAIN sessions[s].interactions} : s \in DOMAIN sessions}

\* the timestamps of a session's members, in member order
Stamps(session) ==
    [j \in DOMAIN session.interactions |->
        session.interactions[j].interaction_timestamp]

\* sessions i < j of one (user_id, project_id) with none of that pair between
AdjacentOfPair(i, j) ==
    /\ i < j
    /\ sessions[i].user_id = sessions[j].user_id
    /\ sessions[i].project_id = sessions[j].project_id
    /\ \A k \in (i + 1)..(j - 1) :
          ~(/\ sessions[k].user_id = sessions[i].user_id
            /\ sessions[k].project_id = sessions[i].project_id)

\* how many sessions of session i's pair come at or before place i
RankInPair(i) ==
    Cardinality({k \in 1..i : /\ sessions[k].user_id = sessions[i].user_id
                              /\ sessions[k].project_id = sessions[i].project_id})

\* C2: after group_into_sessions every input interaction is a member of
\* exactly one returned session, exactly once, no member is anything but an
\* input interaction, and every member carries its session's user_id and
\* project_id.
C2_Partition ==
    pc = "grouped" =>
        /\ \A i \in DOMAIN interactions :
              Cardinality({pl \in Places :
                  sessions[pl[1]].interactions[pl[2]] = interactions[i]}) = 1
        /\ \A pl \in Places :
              LET m == sessions[pl[1]].interactions[pl[2]]
              IN  /\ m \in Range(interactions)
                  /\ m.user_id = sessions[pl[1]].user_id
                  /\ m.project_id = sessions[pl[1]].project_id

\* C2 witness: a list of two pairs was grouped into several sessions, one of
\* them with more than one member
C2_Witness ==
    /\ pc = "grouped"
    /\ Len(interactions) = 3
    /\ Len(sessions) >= 2
    /\ \E s \in DOMAIN sessions : Len(sessions[s].interactions) >= 2
    /\ \E s, t \in DOMAIN sessions : sessions[s].user_id # sessions[t].user_id

\* C3: in every returned session the members are in non-decreasing
\* timestamp order and consecutive members are at most session_gap_minutes
\* apart.
C3_GapInvariant ==
    pc = "grouped" =>
        \A s \in DOMAIN sessions :
            \A j \in 1..(Len(sessions[s].interactions) - 1) :
                LET d == Stamps(sessions[s])[j + 1] - Stamps(sessions[s])[j]
                IN  d >= 0 /\ d <= session_gap_minutes * 60

\* C3 witness: records given out of order end up in one session, in order,
\* two of them exactly the threshold apart
C3_Witness ==
    /\ pc = "grouped"
    /\ session_gap_minutes = 5
    /\ Len(interactions) = 3
    /\ interactions[1].interaction_timestamp > interactions[2].interaction_timestamp
    /\ \E s \in DOMAIN sessions : Stamps(sessions[s]) = <<0, 300, 301>>

\* C4: between two adjacent sessions of one (user_id, project_id) the first
\* record of the later one is more than session_gap_minutes after the last
\* record of the earlier one (a gap equal to the threshold starts no
\* session); records at minutes 0, 5, 10, 50 with threshold 30 give exactly
\* the sessions {0, 5, 10} and {50}.
C4_StrictBoundary ==
    pc = "grouped" =>
        /\ \A i, j \in DOMAIN sessions :
              AdjacentOfPair(i, j) =>
                  Stamps(sessions[j])[1]
                      - Stamps(sessions[i])[Len(sessions[i].interactions)]
                    > session_gap_minutes * 60
        /\ (interactions = ScenarioA /\ session_gap_minutes = 30) =>
              [s \in DOMAIN sessions |-> Stamps(sessions[s])]
                  = <<(<<0, 300, 600>>), (<<3000>>)>>

\* C4 witness: the scenario list was grouped with threshold 30 into two
\* sessions
C4_Witness ==
    /\ pc = "grouped"
    /\ interactions = ScenarioA
    /\ session_gap_minutes = 30
    /\ Len(sessions) = 2

\* C5: consecutive sessions s, t of one (user_id, project_id) satisfy
\* s.end_time < t.start_time, every session has start_time <= end_time, and
\* the sequence numbers that end the session ids of a pair are 1, 2, 3, ...
\* in output order.
C5_ChronologicalDisjoint ==
    pc = "grouped" =>
        /\ \A i, j \in DOMAIN sessions :
              AdjacentOfPair(i, j) => sessions[i].end_time < sessions[j].start_time
        /\ \A i \in DOMAIN sessions :
              /\ sessions[i].start_time <= sessions[i].end_time
              /\ sessions[i].session_id =
                     sessions[i].user_id \o "_" \o sessions[i].project_id \o "_"
                       \o strftime(sessions[i].start_time) \o "_"
                       \o ToString(RankInPair(i))

\* C13: group_into_sessions returns a result only for a positive
\* session_gap_minutes; a threshold <= 0 is reported to the caller as an
\* invalid argument before any session is computed.
C13_RejectsBadConfig ==
    pc = "grouped" => session_gap_minutes > 0

(***************************************************************************)
(* Properties of the status call (checked under SpecStatus)                *)
(***************************************************************************)
\* the sessions of the asked user and project that end after the cutoff
InWindowOfUser ==
    {i \in DOMAIN sessions :
        /\ sessions[i].user_id = user_id
        /\ sessions[i].project_id = project_id
        /\ sessions[i].end_time > now - lookback_hours * 3600}

RECURSIVE SumOver(_, _)
SumOver(S, f) ==
    IF S = {} THEN 0
    ELSE LET x == CHOOSE y \in S : TRUE IN f[x] + SumOver(S \ {x}, f)

WindowInteractions ==
    SumOver(InWindowOfUser, [i \in DOMAIN sessions |-> Len(sessions[i].interactions)])
WindowSuccess ==
    SumOver(InWindowOfUser, [i \in DOMAIN sessions |-> sessions[i].success_indicators])
WindowStuck ==
    SumOver(InWindowOfUser, [i \in DOMAIN sessions |-> sessions[i].stuck_indicators])

\* C1: whenever the in-window sessions are not empty and their summed
\* stuck_indicators exceed 1, the state returned is 'stuck', whatever the
\* summed success_indicators and the number of interactions.
C1_StuckPrecedence ==
    (pc = "status" /\ InWindowOfUser # {} /\ WindowStuck > 1)
        => activity.status = "stuck"

\* C9: the state is 'idle' exactly when no session of the user and project
\* ends after the cutoff, and then the file and problem lists are empty,
\* iteration_count and duration_minutes are 0 and success_rate is 0.
C9_IdleIffNoSession ==
    pc = "status" =>
        /\ (activity.status = "idle") <=> (InWindowOfUser = {})
        /\ activity.status = "idle" =>
              /\ activity.files_working_on = <<>>
              /\ activity.recent_problems = <<>>
              /\ activity.iteration_count = 0
              /\ activity.duration_minutes = 0
              /\ activity.success_rate.num = 0

\* C9 witness: idle although the user has a session of the project (with a
\* file and a problem) that ends exactly at the cutoff, and others have
\* sessions inside the window
C9_Witness ==
    /\ pc = "status"
    /\ activity.status = "idle"
    /\ lookback_hours = 2
    /\ \E i \in DOMAIN sessions :
          /\ sessions[i].user_id = user_id /\ sessions[i].project_id = project_id
          /\ sessions[i].end_time = now - lookback_hours * 3600
          /\ sessions[i].files_mentioned # <<>>
    /\ \E i \in DOMAIN sessions :
          /\ sessions[i].user_id # user_id
          /\ sessions[i].end_time > now - lookback_hours * 3600

\* C10: whenever the in-window sessions hold more than 10 interactions and
\* their summed success_indicators are 0, the state is 'stuck', whatever
\* the summed stuck_indicators.
C10_StuckOnVolume ==
    (pc = "status" /\ InWindowOfUser # {} /\ WindowInteractions > 10
        /\ WindowSuccess = 0)
        => activity.status = "stuck"

\* C10 witness: more than 10 interactions, no success and no stuck signal
C10_Witness ==
    /\ pc = "status"
    /\ WindowInteractions > 10
    /\ WindowSuccess = 0
    /\ WindowStuck = 0
    /\ activity.status = "stuck"

\* C11: for a non-empty window the state is flow, slow or stuck, and when
\* the stuck rule is not met (summed stuck <= 1 and not (interactions > 10
\* and success = 0)) it is 'flow' if success > 0 and interactions <= 6,
\* otherwise 'slow' if interactions > 6, otherwise 'flow'.
C11_ReferenceRules ==
    (pc = "status" /\ InWindowOfUser # {}) =>
        /\ activity.status \in {"flow", "slow", "stuck"}
        /\ (WindowStuck <= 1 /\ ~(WindowInteractions > 10 /\ WindowSuccess = 0)) =>
              activity.status =
                  IF WindowSuccess > 0 /\ WindowInteractions <= 6 THEN "flow"
                  ELSE IF WindowInteractions > 6 THEN "slow"
                  ELSE "flow"

\* C11 witness: 'slow' on 7 interactions with one stuck signal, the stuck
\* rule not met
C11_Witness ==
    /\ pc = "status"
    /\ WindowInteractions = 7
    /\ WindowStuck = 1
    /\ activity.status = "slow"

(***************************************************************************)
(* Properties of the collision call (checked under SpecCollisions)         *)
(***************************************************************************)
\* the sessions of the asked project that end after the cutoff
InWindow(s) ==
    /\ s.project_id = project_id
    /\ s.end_time > now - lookback_hours * 3600

ActiveUsers == {s.user_id : s \in {t \in Range(sessions) : InWindow(t)}}

WindowFiles(u) ==
    UNION {Range(s.files_mentioned) :
           s \in {t \in Range(sessions) : InWindow(t) /\ t.user_id = u}}

WindowFeatures(u) ==
    UNION {Range(s.features_discussed) :
           s \in {t \in Range(sessions) : InWindow(t) /\ t.user_id = u}}

\* the entries that name users u and v, in either order
EntriesOf(u, v) ==
    {e \in DOMAIN collisions : {collisions[e].users[1], collisions[e].users[2]} = {u, v}}

\* C6: no unordered pair of users appears in two entries of one pass, and
\* no entry names one user twice.
C6_OneEntryPerPair ==
    pc = "collisions" =>
        /\ \A e \in DOMAIN collisions : collisions[e].users[1] # collisions[e].users[2]
        /\ \A e, f \in DOMAIN collisions :
              {collisions[e].users[1], collisions[e].users[2]}
                  = {collisions[f].users[1], collisions[f].users[2]} => e = f

\* C6 witness: three users with an in-window session each, and one entry
\* for each of the three pairs
C6_Witness ==
    /\ pc = "collisions"
    /\ Len(collisions) = 3
    /\ Cardinality(ActiveUsers) = 3

\* C7: when the two users' in-window file sets intersect the entry is a
\* file_collision of confidence 0.9 naming a shared file, even if their
\* feature sets intersect too; a feature_collision (confidence 0.7, naming
\* a shared feature) appears only when no file is shared.
C7_FilePrecedence ==
    pc = "collisions" =>
        \A e \in DOMAIN collisions :
            LET c == collisions[e]
                shared_files == WindowFiles(c.users[1]) \cap WindowFiles(c.users[2])
                shared_features ==
                    WindowFeatures(c.users[1]) \cap WindowFeatures(c.users[2])
            IN  /\ shared_files # {} =>
                      /\ c.type = "file_collision"
                      /\ c.confidence = 9
                      /\ c.resource \in shared_files
                /\ c.type = "feature_collision" =>
                      /\ shared_files = {}
                      /\ c.confidence = 7
                      /\ c.resource \in shared_features
                /\ c.type \in {"file_collision", "feature_collision"}

\* C7 witness: a file_collision for two users who share a feature as well
C7_Witness ==
    /\ pc = "collisions"
    /\ \E e \in DOMAIN collisions :
          /\ collisions[e].type = "file_collision"
          /\ WindowFeatures(collisions[e].users[1])
                \cap WindowFeatures(collisions[e].users[2]) # {}
    /\ \E e \in DOMAIN collisions : collisions[e].type = "feature_collision"

\* C8: for every two distinct users with an in-window session of the
\* project there is an entry exactly when their in-window files or their
\* in-window features intersect; users without an in-window session of the
\* project are in no entry.
C8_CompleteAndSound ==
    pc = "collisions" =>
        /\ \A u, v \in ActiveUsers :
              u # v =>
                  ((EntriesOf(u, v) # {}) <=>
                      \/ WindowFiles(u) \cap WindowFiles(v) # {}
                      \/ WindowFeatures(u) \cap WindowFeatures(v) # {})
        /\ \A e \in DOMAIN collisions :
              {collisions[e].users[1], collisions[e].users[2]} \subseteq ActiveUsers

\* C8 witness: two users active in the window share a file only through a
\* session outside the window or of another project, and get no entry
C8_Witness ==
    /\ pc = "collisions"
    /\ \E u, v \in ActiveUsers :
          /\ u # v
          /\ EntriesOf(u, v) = {}
          /\ \E s, t \in Range(sessions) :
                /\ s.user_id = u /\ t.user_id = v
                /\ Range(s.files_mentioned) \cap Range(t.files_mentioned) # {}

\* C15: the resource named in an entry does not depend on the order in
\* which the shared set is iterated: every iteration order gives the
\* entries of this pass.
C15_DeterministicResource ==
    pc = "collisions" =>
        \A file_order \in Orders(files_of(sessions)),
           feature_order \in Orders(features_of(sessions)) :
            detect_team_collisions(sessions, project_id, lookback_hours, now,
                                   file_order \o feature_order) = collisions

(***************************************************************************)
(* Properties of the pipeline (checked under SpecPipeline)                 *)
(***************************************************************************)
\* C16: the success_rate of a status is at most 1: the summed
\* success_indicators never exceed the interactions counted.
C16_SuccessRateInUnitInterval ==
    pc = "status" =>
        /\ 0 <= activity.success_rate.num
        /\ activity.success_rate.num <= activity.success_rate.den

\* the turns of the in-window sessions, oldest first (the conversation's
\* turns are in time order and all of the asked user and project)
InWindowTurns ==
    SelectSeq(interactions,
              LAMBDA r : \E k \in InWindowOfUser : r \in Range(sessions[k].interactions))

\* the problem snippets of those turns, newest first
ProblemsNewestFirst ==
    Reversed(_extract_problems(
        [i \in DOMAIN InWindowTurns |-> InWindowTurns[i].user_query]))

\* C17: recent_problems is the (up to) three newest problem snippets of the
\* window, the newest first.
C17_NewestProblemsFirst ==
    pc = "status" => activity.recent_problems = Take(ProblemsNewestFirst, 3)

\* the in-window sessions with the greatest end_time
LatestInWindow ==
    {k \in InWindowOfUser :
        \A j \in InWindowOfUser : sessions[j].end_time <= sessions[k].end_time}

\* C18: current_task comes from an in-window session of greatest end_time:
\* its first file if it has files, else its first feature, else its last
\* problem snippet, else 'General development'.
C18_TaskPriority ==
    (pc = "status" /\ InWindowOfUser # {}) =>
        \E k \in LatestInWindow :
            LET s == sessions[k]
            IN  /\ s.files_mentioned # <<>> =>
                      activity.current_task = <<"Working on", s.files_mentioned[1]>>
                /\ (s.files_mentioned = <<>> /\ s.features_discussed # <<>>) =>
                      activity.current_task = <<"development", s.features_discussed[1]>>
                /\ (s.files_mentioned = <<>> /\ s.features_discussed = <<>>
                        /\ s.problems_encountered # <<>>) =>
                      activity.current_task =
                          <<"Debugging", s.problems_encountered[Len(s.problems_encountered)]>>
                /\ (s.files_mentioned = <<>> /\ s.features_discussed = <<>>
                        /\ s.problems_encountered = <<>>) =>
                      activity.current_task = <<"General development">>

\* C18 witness: two in-window sessions; the later one names a file and a
\* feature and the task is its file, the earlier one names only a feature
C18_Witness ==
    /\ pc = "status"
    /\ Cardinality(InWindowOfUser) = 2
    /\ \E k \in LatestInWindow, j \in InWindowOfUser :
          /\ j # k
          /\ sessions[k].files_mentioned # <<>>
          /\ sessions[k].features_discussed # <<>>
          /\ sessions[j].files_mentioned = <<>>
          /\ sessions[j].features_discussed # <<>>
          /\ activity.current_task = <<"Working on", sessions[k].files_mentioned[1]>>

NoDuplicates(list) == \A i, j \in DOMAIN list : list[i] = list[j] => i = j

\* C19: every session has at most 10 files_mentioned without duplicates;
\* every status has at most 5 files_working_on without duplicates and at
\* most 3 recent_problems.
C19_Caps ==
    /\ \A k \in DOMAIN sessions :
          /\ Len(sessions[k].files_mentioned) <= 10
          /\ NoDuplicates(sessions[k].files_mentioned)
    /\ pc = "status" =>
          /\ Len(activity.files_working_on) <= 5
          /\ NoDuplicates(activity.files_working_on)
          /\ Len(activity.recent_problems) <= 3

\* C19 witness: an in-window session whose text names 12 files keeps 10,
\* the status keeps 5 of them and 3 of the window's 4 problem snippets
C19_Witness ==
    /\ pc = "status"
    /\ \E k \in InWindowOfUser :
          /\ Cardinality({f \in StringsOf(sessions[k].interactions) :
                              file_patterns(f) # {}}) = 12
          /\ Len(sessions[k].files_mentioned) = 10
    /\ Len(activity.files_working_on) = 5
    /\ Len(ProblemsNewestFirst) = 4
    /\ Len(activity.recent_problems) = 3

\* occurrences of the phrases in the queries and responses of the turns
Occurrences(turns, phrases) ==
    SumSeq([k \in DOMAIN phrases |->
        SumSeq([i \in DOMAIN turns |->
            text_count(turns[i].user_query, phrases[k])
                + text_count(turns[i].claude_response, phrases[k])])])

\* C20: in both summarizers the success and stuck counts are the summed
\* occurrences of the indicator phrases in the text of the queries and
\* responses read.
C20_OccurrenceCounts ==
    /\ \A k \in DOMAIN sessions :
          /\ sessions[k].success_indicators =
                 Occurrences(sessions[k].interactions, success_indicators)
          /\ sessions[k].stuck_indicators =
                 Occurrences(sessions[k].interactions, stuck_indicators)
    /\ pc = "context" =>
          /\ context.success_indicators = Occurrences(interactions, flow_indicators)
          /\ context.stuck_indicators =
                 Occurrences(interactions, legacy_stuck_indicators)

(***************************************************************************)
(* Properties of the dashboard call (checked under SpecDashboard)          *)
(***************************************************************************)
\* C12: a malformed log (unparseable timestamp, absent or empty user_id or
\* project_id) is skipped alone: the call returns the dashboard computed
\* from the other logs.
C12_MalformedSkipped ==
    pc \in {"dashboard", "raised"} =>
        \E reads \in ClockReads(now), order \in DashboardOrders(chat_logs) :
            dashboard = get_team_dashboard(project_id, SelectSeq(chat_logs, WellFormed),
                                           reads, order)

\* C14: a second pass over the same logs returns the same statuses and the
\* same collision entries, detected_at included.
C14_Idempotent ==
    [][(pc = "dashboard" /\ pc' = "again") =>
          /\ dashboard'.team_status = dashboard.team_status
          /\ dashboard'.collisions = dashboard.collisions]_vars

\* the users that have a log, hence a session, in the project
ProjectUsers ==
    {chat_logs[i].user_id : i \in {j \in DOMAIN chat_logs : chat_logs[j].project_id = project_id}}

\* C28: a dashboard has exactly one team_status entry for each user with a
\* session in the project, and every user named in a collision has a
\* team_status entry whose status is not idle.
C28_SnapshotConsistent ==
    pc \in {"dashboard", "again"} =>
        /\ \A u \in ProjectUsers :
              Cardinality({i \in DOMAIN dashboard.team_status :
                              dashboard.team_status[i].user_id = u}) = 1
        /\ \A i \in DOMAIN dashboard.team_status :
              dashboard.team_status[i].user_id \in ProjectUsers
        /\ \A c \in DOMAIN dashboard.collisions :
              \A u \in Range(dashboard.collisions[c].users) :
                  \E i \in DOMAIN dashboard.team_status :
                      /\ dashboard.team_status[i].user_id = u
                      /\ dashboard.team_status[i].status # "idle"

\* C28 witness: the clock ticked between the status calls and the collision
\* call, and the collision found after the tick names two users, each with
\* a team_status entry
C28_Witness ==
    /\ pc = "dashboard"
    /\ Len(chat_logs) = 2
    /\ chat_logs[1].user_id = "a"
    /\ chat_logs[1].interaction_timestamp = iso_z(9000)
    /\ chat_logs[2].user_id = "d"
    /\ chat_logs[2].interaction_timestamp = iso_z(9000)
    /\ Len(dashboard.collisions) = 1
    /\ dashboard.collisions[1].detected_at = now + 1
    /\ Len(dashboard.team_status) = 2

(***************************************************************************)
(* Further properties of segmentation (checked under Spec)                 *)
(***************************************************************************)
\* the sessions of the list that calculate_developer_status counts for the
\* key at the clock
CountedSessions(list, key, clock, hours) ==
    {i \in DOMAIN list : /\ list[i].user_id = key[1]
                          /\ list[i].project_id = key[2]
                          /\ list[i].end_time > clock - hours * 3600}

\* C21: every session's duration_minutes is the whole minutes between its
\* first and last record, and 1 when that is 0; the duration_minutes of a
\* status is at least the number of sessions it counts.
C21_DurationFloor ==
    pc = "grouped" =>
        /\ \A i \in DOMAIN sessions :
              LET minutes == (sessions[i].end_time - sessions[i].start_time) \div 60
              IN  /\ sessions[i].duration_minutes = IF minutes >= 1 THEN minutes ELSE 1
                  /\ sessions[i].duration_minutes >= 1
        /\ \A key \in Keys :
              calculate_developer_status(sessions, key[1], key[2], 1, 3600, <<>>)
                      .duration_minutes
                  >= Cardinality(CountedSessions(sessions, key, 3600, 1))

\* C21 witness: a session of two records a second apart and a session of one
\* record, both of duration 1, both counted by the status of their key
C21_Witness ==
    /\ pc = "grouped"
    /\ Len(sessions) = 2
    /\ Stamps(sessions[1]) = <<300, 301>>
    /\ Stamps(sessions[2]) = <<3000>>
    /\ sessions[1].duration_minutes = 1
    /\ sessions[2].duration_minutes = 1
    /\ sessions[1].user_id = sessions[2].user_id
    /\ sessions[1].project_id = sessions[2].project_id
    /\ calculate_developer_status(sessions, sessions[1].user_id,
                                  sessions[1].project_id, 1, 3600, <<>>)
           .duration_minutes = 2

\* C22: members of a session that have one timestamp are in ascending
\* order of record id.
C22_TieBreakById ==
    pc = "grouped" =>
        \A s \in DOMAIN sessions :
            \A j \in 1..(Len(sessions[s].interactions) - 1) :
                Stamps(sessions[s])[j] = Stamps(sessions[s])[j + 1] =>
                    sessions[s].interactions[j].id < sessions[s].interactions[j + 1].id

\* a list of sessions as the set of (session_id, members, start, end)
SessionTuples(list) ==
    {<<list[i].session_id, Range(list[i].interactions), list[i].start_time,
       list[i].end_time>> : i \in DOMAIN list}

\* the list in the order p of its places
Permuted(list, p) == [i \in DOMAIN list |-> list[p[i]]]

\* C23: every permutation of the input list gives the same set of sessions
\* as (session_id, set of members, start_time, end_time).
C23_OrderIndependent ==
    pc = "grouped" =>
        \A p \in Orders(DOMAIN interactions) :
            SessionTuples(group_into_sessions(Permuted(interactions, p),
                                              session_gap_minutes, <<>>))
                = SessionTuples(sessions)

\* C29: no two sessions returned by one call have the same session_id.
C29_UniqueSessionIds ==
    pc = "grouped" =>
        \A i, j \in DOMAIN sessions :
            sessions[i].session_id = sessions[j].session_id => i = j

ProjectLogs == SelectSeq(chat_logs, LAMBDA log : log.project_id = project_id)

\* the logs that get_developer_insights keeps for the period of days
InsightLogs(days) ==
    SelectSeq(ProjectLogs, LAMBDA log :
        /\ log.user_id = user_id
        /\ fromisoformat(log.interaction_timestamp).value > now - days * 86400)

\* C24: with no record, or no record of the requested project, grouping
\* returns no session, the dashboard is complete with empty team_status,
\* empty collisions and the four project metrics 0, the insights have zero
\* counts and an idle recent_activity, and no call raises.
C24_EmptyInput ==
    /\ \A gap \in Gaps : group_into_sessions(<<>>, gap, <<>>) = <<>>
    /\ (pc # "start" /\ ProjectLogs = <<>>) => pc # "raised"
    /\ (pc = "dashboard" /\ ProjectLogs = <<>>) =>
          /\ DOMAIN dashboard = {"project_id", "team_status", "collisions",
                                 "project_metrics", "last_updated"}
          /\ dashboard.team_status = <<>>
          /\ dashboard.collisions = <<>>
          /\ dashboard.project_metrics.total_interactions_24h = 0
          /\ dashboard.project_metrics.active_developers = 0
          /\ dashboard.project_metrics.files_being_worked_on = 0
          /\ dashboard.project_metrics.average_success_rate.num = 0
    /\ (pc = "insights" /\ InsightLogs(insights.period_days) = <<>>) =>
          /\ insights.total_sessions = 0
          /\ insights.total_interactions = 0
          /\ insights.avg_session_length = 0
          /\ DOMAIN insights.most_worked_files = {}
          /\ DOMAIN insights.focus_areas = {}
          /\ insights.recent_activity.status = "idle"
          /\ insights.recent_activity.iteration_count = 0

\* C24 witness: the table holds rows, none of them of the requested user in
\* the requested project, and the insights were computed for seven days
C24_Witness ==
    /\ pc = "insights"
    /\ insights.period_days = 7
    /\ Len(chat_logs) = 2
    /\ chat_logs[1].user_id = "a" /\ chat_logs[1].project_id = "b_c"
    /\ chat_logs[2].user_id = "d" /\ chat_logs[2].project_id = "c"
    /\ insights.total_sessions = 0
    /\ insights.recent_activity.status = "idle"

\* C27: get_project_list returns an entry for every project with rows (each
\* has a developer status) and its except branch is not taken; the
\* dashboard of a project with rows has the keys team_status, collisions
\* and last_updated.
C27_ProjectListComplete ==
    /\ pc = "projects" =>
          /\ {projects.value[i].id : i \in DOMAIN projects.value}
                 = {chat_logs[i].project_id : i \in DOMAIN chat_logs}
          /\ projects.printed = "none"
    /\ (pc = "frontend" /\ ProjectLogs # <<>>) =>
          {"team_status", "collisions", "last_updated"} \subseteq DOMAIN dashboard

(***************************************************************************)
(* Properties of the legacy detection pass (checked under SpecLegacy)      *)
(***************************************************************************)
\* C26: the legacy pass returns at most one collision for a pair of
\* developers, and for a pair whose files and whose features both
\* intersect it is the file collision.
C26_LegacyOnePerPair ==
    pc = "collisions" =>
        /\ \A i, j \in DOMAIN collisions :
              Range(collisions[i].developers) = Range(collisions[j].developers) => i = j
        /\ \A i \in DOMAIN collisions :
              collisions[i].collision_type = "feature" =>
                  files_of_contexts(dev_contexts(team_contexts,
                                                 collisions[i].developers[1]))
                      \cap files_of_contexts(dev_contexts(team_contexts,
                                                          collisions[i].developers[2]))
                      = {}

====
